---- MODULE Spec2Model ----
(***************************************************************************)
(* Model of the mal.py client: the request pacer of APICallManager         *)
(* (mal/connection.py) and the configuration setters and parameter         *)
(* construction of Client (mal/client.py).                                 *)
(*                                                                         *)
(* Time is counted in ticks, TicksPerSecond ticks to the second, so the    *)
(* default delay of 1.0 s is TicksPerSecond ticks.  Python strings are     *)
(* sequences of one-character strings; an optional argument is <<>> when   *)
(* it is MISSING and <<v>> when it is given.                               *)
(***************************************************************************)
EXTENDS Integers, Sequences, FiniteSets, TLC

\* ------------------------------------------------------------------------
\* Bounds of the exploration
\* ------------------------------------------------------------------------
TicksPerSecond == 2
MaxTime == 5
MaxDelay == 3
MaxDur == 1
MaxBurst == 3
MaxOver == 1
MaxTokens == 3
MaxCalls == 2

\* ------------------------------------------------------------------------
\* Small helpers
\* ------------------------------------------------------------------------
MISSING == <<>>

Some(v) == <<v>>

NoTime == 0 - 1

\* the threads that call api_call on one client
Threads == {1, 2}

VARIABLES
    now,                \* time.time()
    next_request_at,    \* APICallManager._next_request_at
    delay,              \* APICallManager.delay
    limit,              \* Client._limit
    anime_fields,       \* Client._anime_fields
    manga_fields,       \* Client._manga_fields
    include_nsfw,       \* Client._include_nsfw
    auto_truncate,      \* Client._auto_truncate
    res,                \* outcome of the most recent operation
    lastSentAt,         \* time the most recent HTTP request was sent
    prevSentAt,         \* time the HTTP request before that one was sent
    wire,               \* the HTTP requests the most recent operation sent
    burst,              \* requests made back to back since the first one
    burstStart,         \* time just before the first call of the burst
    delayFixed,         \* no delay assignment since the first request
    delayAtSend,        \* the delay when the most recent request was made
    pc,                 \* where each thread is in api_call
    wake,               \* when the sleep of each thread ends
    loaded,             \* the _next_request_at each thread read for its +=
    lock,               \* the thread that holds the callers' lock, or 0
    locking,            \* the callers wrap api_call in one lock
    sent_at             \* the send times of the threads' requests, in order

vars == <<now, next_request_at, delay, limit, anime_fields, manga_fields,
          include_nsfw, auto_truncate, res, lastSentAt, prevSentAt, wire,
          burst, burstStart, delayFixed, delayAtSend, pc, wake, loaded, lock,
          locking, sent_at>>

\* the state of the threads that share one client
threadVars == <<pc, wake, loaded, lock, locking, sent_at>>


\* ------------------------------------------------------------------------
\* Python values: characters, decimal strings, int()
\* ------------------------------------------------------------------------
Digits == <<"0", "1", "2", "3", "4", "5", "6", "7", "8", "9">>

DigitChars == {Digits[i] : i \in 1..10}

DigitValue(c) == (CHOOSE i \in 1..10 : Digits[i] = c) - 1

RECURSIVE StrNat(_)
\* str(n) for n >= 0
StrNat(n) == IF n < 10 THEN <<Digits[n + 1]>>
             ELSE StrNat(n \div 10) \o <<Digits[(n % 10) + 1]>>

\* str(n) for an int n
Str(n) == IF n < 0 THEN <<"-">> \o StrNat(0 - n) ELSE StrNat(n)

RECURSIVE NatOfDigits(_)
NatOfDigits(s) == IF s = <<>> THEN 0
                  ELSE 10 * NatOfDigits(SubSeq(s, 1, Len(s) - 1)) + DigitValue(s[Len(s)])

IsDigits(s) == Len(s) > 0 /\ \A i \in 1..Len(s) : s[i] \in DigitChars

\* int(s) for a str s: <<TRUE, n>>, or <<FALSE, 0>> when int() raises ValueError
IntOfStr(s) ==
    IF s # <<>> /\ s[1] \in {"-", "+"}
    THEN IF IsDigits(Tail(s))
         THEN <<TRUE, IF s[1] = "-" THEN 0 - NatOfDigits(Tail(s)) ELSE NatOfDigits(Tail(s))>>
         ELSE <<FALSE, 0>>
    ELSE IF IsDigits(s) THEN <<TRUE, NatOfDigits(s)>> ELSE <<FALSE, 0>>

\* int(x) for a float x given in tenths: truncation toward zero
IntOfTenths(t) == IF t >= 0 THEN t \div 10 ELSE 0 - ((0 - t) \div 10)

\* int(value) of the limit setter; a value is [kind, n, s] with kind "int" (the
\* integer n), "float" (n tenths) or "str" (the sequence of characters s)
PyInt(value) ==
    CASE value.kind = "int" -> <<TRUE, value.n>>
      [] value.kind = "float" -> <<TRUE, IntOfTenths(value.n)>>
      [] value.kind = "str" -> IntOfStr(value.s)

\* ------------------------------------------------------------------------
\* Endpoints (mal/endpoints.py).  A url is the sequence of its '/'-delimited
\* segments.
\* ------------------------------------------------------------------------
BASE == <<"https:", "", "api.myanimelist.net", "v2">>

Endpoints == {"ANIME", "ANIME_RANKING", "ANIME_SEASONAL", "ANIME_SUGGESTIONS",
              "MANGA", "MANGA_RANKING", "USER", "USER_ANIMELIST", "USER_MANGALIST",
              "FORUM_BOARDS", "FORUM_TOPICS", "FORUM_TOPIC_DETAIL"}

EndpointUrl(e) ==
    CASE e = "ANIME" -> BASE \o <<"anime">>
      [] e = "ANIME_RANKING" -> BASE \o <<"anime", "ranking">>
      [] e = "ANIME_SEASONAL" -> BASE \o <<"anime", "season">>
      [] e = "ANIME_SUGGESTIONS" -> BASE \o <<"anime", "suggestions">>
      [] e = "MANGA" -> BASE \o <<"manga">>
      [] e = "MANGA_RANKING" -> BASE \o <<"manga", "ranking">>
      [] e = "USER" -> BASE \o <<"users">>
      [] e = "USER_ANIMELIST" -> BASE \o <<"users", "{username}", "animelist">>
      [] e = "USER_MANGALIST" -> BASE \o <<"users", "{username}", "mangalist">>
      [] e = "FORUM_BOARDS" -> BASE \o <<"forum", "boards">>
      [] e = "FORUM_TOPICS" -> BASE \o <<"forum", "topics">>
      [] e = "FORUM_TOPIC_DETAIL" -> BASE \o <<"forum", "topic">>

\* Endpoint.limit; <<>> is None
EndpointLimit(e) ==
    CASE e \in {"ANIME", "ANIME_SUGGESTIONS", "MANGA", "FORUM_TOPICS",
                "FORUM_TOPIC_DETAIL"} -> <<100>>
      [] e \in {"ANIME_RANKING", "ANIME_SEASONAL", "MANGA_RANKING"} -> <<500>>
      [] e \in {"USER_ANIMELIST", "USER_MANGALIST"} -> <<1000>>
      [] e \in {"USER", "FORUM_BOARDS"} -> <<>>

EndpointIsAnime(e) ==
    e \in {"ANIME", "ANIME_RANKING", "ANIME_SEASONAL", "ANIME_SUGGESTIONS",
           "USER_ANIMELIST"}

\* mutant of EndpointIsManga: both user lists are in manga_endpoints
EndpointIsManga_both_lists(e) ==
    e \in {"MANGA", "MANGA_RANKING", "USER_MANGALIST", "USER_ANIMELIST"}

EndpointIsManga(e) == e \in {"MANGA", "MANGA_RANKING", "USER_MANGALIST"}

EndpointIsList(e) == e \in {"USER_ANIMELIST", "USER_MANGALIST"}

EndpointIsForum(e) == e \in {"FORUM_BOARDS", "FORUM_TOPIC_DETAIL", "FORUM_TOPICS"}

\* Endpoint.is_character: true of the anime-characters endpoint alone
EndpointIsCharacter(e) == e = "ANIME_CHARACTERS"

\* the members of Endpoint together with ANIME_CHARACTERS, which the client
\* and the tests use
AllEndpoints == Endpoints \cup {"ANIME_CHARACTERS"}

\* ------------------------------------------------------------------------
\* Enumerations (mal/enums.py).  An enum member is [cls, value]; a plain
\* string argument is [cls |-> "str", value |-> s].
\* ------------------------------------------------------------------------
StrTok(v) == [cls |-> "str", value |-> v]

EnumTok(c, v) == [cls |-> c, value |-> v]

AnimeListStatusValues == {"completed", "dropped", "on_hold", "plan_to_watch", "watching"}

MangaListStatusValues == {"completed", "dropped", "on_hold", "plan_to_read", "reading"}

AnimeListSortValues ==
    {"list_score", "list_updated_at", "anime_title", "anime_start_date", "anime_id"}

MangaListSortValues ==
    {"list_score", "list_updated_at", "manga_title", "manga_start_date", "manga_id"}

SeasonalAnimeSortValues == {"anime_score", "anime_num_list_users"}

SeasonValues == {"winter", "spring", "summer", "fall"}

\* Field, in declaration order
FieldNames ==
    <<"id", "title", "main_picture", "alternative_titles", "start_date", "end_date",
      "synopsis", "mean", "rank", "popularity", "num_list_users", "num_scoring_users",
      "nsfw", "created_at", "updated_at", "media_type", "status", "genres", "pictures",
      "background", "related_anime", "related_manga", "recommendations",
      "num_episodes", "start_season", "broadcast", "source",
      "average_episode_duration", "rating", "studios", "statistics",
      "opening_themes", "ending_themes",
      "authors", "num_chapters", "num_volumes", "serialization">>

FieldValues == {FieldNames[i] : i \in 1..Len(FieldNames)}

\* Field.anime_fields: the forbidden list
AnimeForbidden == {"authors", "num_chapters", "num_volumes", "serialization"}

\* mutant of MangaForbidden: 'authors' is listed among the fields forbidden
\* for a manga as well
MangaForbidden_with_authors ==
    {"num_episodes", "start_season", "broadcast", "source",
     "average_episode_duration", "rating", "studios", "statistics",
     "opening_themes", "ending_themes", "authors"}

\* Field.manga_fields: the forbidden list
MangaForbidden == {"num_episodes", "start_season", "broadcast", "source",
                   "average_episode_duration", "rating", "studios", "statistics",
                   "opening_themes", "ending_themes"}

\* Field[name]: names and values of Field coincide
FieldMember(name) == EnumTok("Field", name)

\* [f for f in Field]
AllFields == [i \in 1..Len(FieldNames) |-> FieldMember(FieldNames[i])]

\* Field.is_anime of a member
FieldIsAnime(f) == f.value \in FieldValues \ AnimeForbidden

\* Field.is_manga of a member
FieldIsManga(f) == f.value \in FieldValues \ MangaForbidden

\* Field.all_anime(): [field for field in Field if field.is_anime]
all_anime == SelectSeq(AllFields, FieldIsAnime)

\* Field.all_manga()
all_manga == SelectSeq(AllFields, FieldIsManga)

\* [f.value for f in fields]
Values(fields) == [i \in 1..Len(fields) |-> fields[i].value]

\* Field.is_character
FieldIsCharacter(f) == FALSE

\* mutant of InField: only members of Field are in Field
InField_members_only(tok) == tok.cls = "Field"

\* BaseEnumMeta.__contains__ for Field: Field(obj) succeeds
InField(tok) == tok.value \in FieldValues

RECURSIVE from_list(_)
\* Field.from_list: the Field members of the valid tokens, in order
from_list(fields) ==
    IF fields = <<>> THEN <<>>
    ELSE LET field == Head(fields) IN
         IF ~InField(field) THEN from_list(Tail(fields))
         ELSE <<IF field.cls = "str" THEN FieldMember(field.value) ELSE field>>
              \o from_list(Tail(fields))

RECURSIVE Join(_)
\* ','.join(names): the names with a "," between neighbours
Join(names) ==
    IF names = <<>> THEN <<>>
    ELSE IF Len(names) = 1 THEN names
         ELSE <<Head(names), ",">> \o Join(Tail(names))

Base ==
    <<FieldMember("status"), FieldMember("media_type"), FieldMember("genres"),
      FieldMember("mean"), FieldMember("status")>>

default_anime ==
    Base \o <<FieldMember("num_episodes"), FieldMember("start_season"),
              FieldMember("broadcast"), FieldMember("source")>>

default_manga ==
    Base \o <<FieldMember("num_chapters"), FieldMember("authors"),
              FieldMember("serialization")>>

\* ------------------------------------------------------------------------
\* The pacer: APICallManager
\* ------------------------------------------------------------------------
DefaultDelay == TicksPerSecond

\* time.sleep(wait_time) when wait_time > 0: the time the request is sent
SendTime == IF next_request_at - now > 0 THEN next_request_at ELSE now

\* mutant of AdvanceSlot: the slot is advanced by twice the delay
AdvanceSlot_doubled(nra, d) == nra + d + d

\* self._next_request_at += self.delay
AdvanceSlot(nra, d) == nra + d

\* what the transport does with a request: a 200 response ("ok"), a response
\* with a 4xx or 5xx status ("http_error"), a response with any other status,
\* such as 202 or 204 ("other_status"), or an exception raised by session.get
Outcomes == {"ok", "http_error", "other_status", "transport_error"}

\* api_call(url, params): wait, send, advance the slot, check the response.
\* The transport raising propagates out of session.get before the slot is
\* advanced.
ApiCall(url, params, outcome, dur) ==
    /\ SendTime + dur <= MaxTime
    /\ wire' = <<[url |-> url, params |-> params]>>
    /\ now' = SendTime + dur
    /\ next_request_at' = IF outcome = "transport_error" THEN next_request_at
                          ELSE AdvanceSlot(next_request_at, delay)
    /\ prevSentAt' = lastSentAt
    /\ lastSentAt' = SendTime
    /\ burst' = IF lastSentAt = NoTime THEN 1
                ELSE IF burst >= 1 /\ burst < MaxBurst THEN burst + 1 ELSE 0
    /\ burstStart' = IF lastSentAt = NoTime THEN now
                     ELSE IF burst >= 1 /\ burst < MaxBurst THEN burstStart ELSE 0
    /\ delayAtSend' = delay
    /\ UNCHANGED <<delay, delayFixed>>
    /\ UNCHANGED threadVars

\* what api_call raises to its caller: raise_for_status() is called for
\* every status but 200 and raises for the 4xx and 5xx statuses only
ApiRaised(outcome) ==
    CASE outcome = "ok" -> ""
      [] outcome = "http_error" -> "HTTPError"
      [] outcome = "other_status" -> ""
      [] outcome = "transport_error" -> "RequestException"

\* what api_call returns: response.json() when nothing was raised
ApiReturns(outcome) == IF ApiRaised(outcome) = "" THEN Some("json") ELSE MISSING

pacerVars == <<now, next_request_at, delay, lastSentAt, prevSentAt, burst,
               burstStart, delayFixed, delayAtSend>>

\* an operation that does not reach api_call
NoRequest == wire' = <<>> /\ UNCHANGED pacerVars /\ UNCHANGED threadVars

configVars == <<limit, anime_fields, manga_fields, include_nsfw, auto_truncate>>

\* ------------------------------------------------------------------------
\* Parameter construction (Client._build_parameters and its helpers)
\* ------------------------------------------------------------------------
MinQueryLen == 3

MaxQueryLenSearch == 64

MaxQueryLenForum == 344

\* q[:n]
Prefix(q, n) == SubSeq(q, 1, IF n < Len(q) THEN n ELSE Len(q))

\* mutant of handle_query: with auto_truncate on, the query is cut before its
\* length is looked at, so a too-short query passes
handle_query_truncates_first(q, endpoint, truncate) ==
    LET max_len == IF endpoint \in {"ANIME", "MANGA"} THEN MaxQueryLenSearch
                   ELSE MaxQueryLenForum
    IN  IF endpoint \notin {"ANIME", "MANGA", "FORUM_TOPICS"}
        THEN [raised |-> "", q |-> q]
        ELSE IF truncate
             THEN [raised |-> "", q |-> Prefix(q, max_len)]
             ELSE IF Len(q) < MinQueryLen \/ Len(q) > max_len
                  THEN [raised |-> "ValueError", q |-> q]
                  ELSE [raised |-> "", q |-> q]

\* mutant of handle_query: the cut is one character short, q[:max_len - 1]
handle_query_cuts_short(q, endpoint, truncate) ==
    LET max_len == IF endpoint \in {"ANIME", "MANGA"} THEN MaxQueryLenSearch
                   ELSE MaxQueryLenForum
    IN  IF endpoint \notin {"ANIME", "MANGA", "FORUM_TOPICS"}
        THEN [raised |-> "", q |-> q]
        ELSE IF Len(q) < MinQueryLen
             THEN [raised |-> "ValueError", q |-> q]
             ELSE IF Len(q) > max_len
                  THEN IF truncate
                       THEN [raised |-> "", q |-> Prefix(q, max_len - 1)]
                       ELSE [raised |-> "ValueError", q |-> q]
                  ELSE [raised |-> "", q |-> q]

\* Client._handle_query: [raised, q]
handle_query(q, endpoint, truncate) ==
    LET max_len == IF endpoint \in {"ANIME", "MANGA"} THEN MaxQueryLenSearch
                   ELSE MaxQueryLenForum
    IN  IF endpoint \notin {"ANIME", "MANGA", "FORUM_TOPICS"}
        THEN [raised |-> "", q |-> q]
        ELSE IF Len(q) < MinQueryLen
             THEN [raised |-> "ValueError", q |-> q]
             ELSE IF Len(q) > max_len
                  THEN IF truncate
                       THEN [raised |-> "", q |-> Prefix(q, max_len)]
                       ELSE [raised |-> "ValueError", q |-> q]
                  ELSE [raised |-> "", q |-> q]

\* mutant of get_limit: the upper bound of the endpoint is not applied
get_limit_no_upper(endpoint, value) == IF value < 1 THEN 1 ELSE value

\* Client._get_limit
get_limit(endpoint, value) ==
    IF value < 1 THEN 1
    ELSE IF value > EndpointLimit(endpoint)[1] THEN EndpointLimit(endpoint)[1]
         ELSE value

\* the 'limit' entry: the clamped per-call limit, else the client's default
limit_parameter(endpoint, lim, default) ==
    IF lim # MISSING THEN Str(get_limit(endpoint, lim[1])) ELSE Str(default)

\* mutant of fields_parameter: list_status is appended to a non-empty resolved
\* set only
fields_parameter_skips_empty(endpoint, fields, animeDefault, mangaDefault) ==
    LET parsed == IF fields # MISSING THEN from_list(fields[1]) ELSE <<>>
        chosen ==
            IF fields # MISSING
            THEN IF EndpointIsAnime(endpoint)
                 THEN Some(Join(Values(SelectSeq(parsed, FieldIsAnime))))
                 ELSE IF EndpointIsManga(endpoint)
                      THEN Some(Join(Values(SelectSeq(parsed, FieldIsManga))))
                      ELSE IF EndpointIsCharacter(endpoint)
                           THEN Some(Join(Values(SelectSeq(parsed, FieldIsCharacter))))
                           ELSE MISSING
            ELSE IF EndpointIsAnime(endpoint) THEN Some(Join(Values(animeDefault)))
                 ELSE IF EndpointIsManga(endpoint)
                      THEN Some(Join(Values(mangaDefault)))
                      ELSE MISSING
    IN  IF EndpointIsList(endpoint) /\ chosen[1] # <<>>
        THEN Some(chosen[1] \o <<",", "list_status">>)
        ELSE chosen

\* the 'fields' entry; <<>> when the endpoint is of no category
fields_parameter(endpoint, fields, animeDefault, mangaDefault) ==
    LET parsed == IF fields # MISSING THEN from_list(fields[1]) ELSE <<>>
        chosen ==
            IF fields # MISSING
            THEN IF EndpointIsAnime(endpoint)
                 THEN Some(Join(Values(SelectSeq(parsed, FieldIsAnime))))
                 ELSE IF EndpointIsManga(endpoint)
                      THEN Some(Join(Values(SelectSeq(parsed, FieldIsManga))))
                      ELSE IF EndpointIsCharacter(endpoint)
                           THEN Some(Join(Values(SelectSeq(parsed, FieldIsCharacter))))
                           ELSE MISSING
            ELSE IF EndpointIsAnime(endpoint) THEN Some(Join(Values(animeDefault)))
                 ELSE IF EndpointIsManga(endpoint)
                      THEN Some(Join(Values(mangaDefault)))
                      ELSE MISSING
    IN  IF EndpointIsList(endpoint)
        THEN Some(chosen[1] \o <<",", "list_status">>)
        ELSE chosen

\* mutant of status_parameter: a string is checked against the anime
\* vocabulary on every endpoint
status_parameter_anime_only(endpoint, status) ==
    IF status = MISSING THEN [raised |-> "", value |-> MISSING]
    ELSE LET tok == status[1] IN
         IF tok.cls = "str"
         THEN IF TRUE
              THEN IF tok.value \in AnimeListStatusValues
                   THEN [raised |-> "", value |-> Some(tok.value)]
                   ELSE [raised |-> "ValueError", value |-> MISSING]
              ELSE IF EndpointIsManga(endpoint)
                   THEN IF tok.value \in MangaListStatusValues
                        THEN [raised |-> "", value |-> Some(tok.value)]
                        ELSE [raised |-> "ValueError", value |-> MISSING]
                   ELSE [raised |-> "ValueError", value |-> MISSING]
         ELSE [raised |-> "", value |-> Some(tok.value)]

\* the status branch: [raised, value]
status_parameter(endpoint, status) ==
    IF status = MISSING THEN [raised |-> "", value |-> MISSING]
    ELSE LET tok == status[1] IN
         IF tok.cls = "str"
         THEN IF EndpointIsAnime(endpoint)
              THEN IF tok.value \in AnimeListStatusValues
                   THEN [raised |-> "", value |-> Some(tok.value)]
                   ELSE [raised |-> "ValueError", value |-> MISSING]
              ELSE IF EndpointIsManga(endpoint)
                   THEN IF tok.value \in MangaListStatusValues
                        THEN [raised |-> "", value |-> Some(tok.value)]
                        ELSE [raised |-> "ValueError", value |-> MISSING]
                   ELSE [raised |-> "ValueError", value |-> MISSING]
         ELSE [raised |-> "", value |-> Some(tok.value)]

\* the sort branch: [raised, value]
sort_parameter(endpoint, sort) ==
    IF sort = MISSING THEN [raised |-> "", value |-> MISSING]
    ELSE LET tok == sort[1] IN
         IF tok.cls = "str"
         THEN IF EndpointIsAnime(endpoint)
              THEN IF tok.value \in AnimeListSortValues \cup SeasonalAnimeSortValues
                   THEN [raised |-> "", value |-> Some(tok.value)]
                   ELSE [raised |-> "ValueError", value |-> MISSING]
              ELSE IF EndpointIsManga(endpoint)
                   THEN IF tok.value \in MangaListSortValues
                        THEN [raised |-> "", value |-> Some(tok.value)]
                        ELSE [raised |-> "ValueError", value |-> MISSING]
                   ELSE [raised |-> "ValueError", value |-> MISSING]
         ELSE [raised |-> "", value |-> Some(tok.value)]

\* mutant of nsfw_parameter: `if nsfw or self.include_nsfw`
nsfw_parameter_either(nsfw, default) ==
    IF (nsfw # MISSING /\ nsfw[1]) \/ default THEN Some("true") ELSE MISSING

\* the 'nsfw' entry: the per-call flag overrides the client's
nsfw_parameter(nsfw, default) ==
    IF nsfw # MISSING
    THEN IF nsfw[1] THEN Some("true") ELSE MISSING
    ELSE IF default THEN Some("true") ELSE MISSING

StrOpt(v) == IF v = MISSING THEN MISSING ELSE Some(Str(v[1]))

NoArgs == [query |-> MISSING, limit |-> MISSING, offset |-> MISSING,
           fields |-> MISSING, nsfw |-> MISSING, status |-> MISSING,
           sort |-> MISSING, board_id |-> MISSING, subboard_id |-> MISSING,
           topic_user_name |-> MISSING, user_name |-> MISSING,
           id |-> MISSING, season |-> MISSING, ranking_type |-> MISSING]

NoParams == [q |-> MISSING, limit |-> MISSING, offset |-> MISSING,
             fields |-> MISSING, status |-> MISSING, sort |-> MISSING,
             nsfw |-> MISSING, board_id |-> MISSING, subboard_id |-> MISSING,
             topic_user_name |-> MISSING, user_name |-> MISSING,
             ranking_type |-> MISSING]

\* Client._build_parameters: [raised, params]; a is the record of keyword
\* arguments, c the client's defaults
build_parameters(endpoint, a, c) ==
    LET hq == IF a.query # MISSING
              THEN handle_query(a.query[1], endpoint, c.auto_truncate)
              ELSE [raised |-> "", q |-> <<>>]
        st == status_parameter(endpoint, a.status)
        so == sort_parameter(endpoint, a.sort)
    IN  IF hq.raised # "" THEN [raised |-> hq.raised, params |-> NoParams]
        ELSE IF st.raised # "" THEN [raised |-> st.raised, params |-> NoParams]
        ELSE IF so.raised # "" THEN [raised |-> so.raised, params |-> NoParams]
        ELSE [raised |-> "",
              params |->
                [q |-> IF a.query # MISSING THEN Some(hq.q) ELSE MISSING,
                 limit |-> Some(limit_parameter(endpoint, a.limit, c.limit)),
                 offset |-> StrOpt(a.offset),
                 fields |-> fields_parameter(endpoint, a.fields, c.anime_fields,
                                             c.manga_fields),
                 status |-> st.value,
                 sort |-> so.value,
                 nsfw |-> nsfw_parameter(a.nsfw, c.include_nsfw),
                 board_id |-> StrOpt(a.board_id),
                 subboard_id |-> StrOpt(a.subboard_id),
                 topic_user_name |-> a.topic_user_name,
                 user_name |-> a.user_name,
                 ranking_type |-> MISSING]]

\* the client's defaults as _build_parameters reads them
Defaults == [limit |-> limit, anime_fields |-> anime_fields,
             manga_fields |-> manga_fields, include_nsfw |-> include_nsfw,
             auto_truncate |-> auto_truncate]

\* ------------------------------------------------------------------------
\* Client.__init__ and APICallManager.__init__
\* ------------------------------------------------------------------------
InitClient ==
    /\ now = 0
    /\ next_request_at = 0
    /\ delay = DefaultDelay
    /\ limit = 10
    /\ anime_fields = default_anime
    /\ manga_fields = default_manga
    /\ include_nsfw = FALSE
    /\ auto_truncate = FALSE
    /\ res = [op |-> "init", raised |-> ""]
    /\ lastSentAt = NoTime
    /\ prevSentAt = NoTime
    /\ burst = 0
    /\ burstStart = 0
    /\ delayFixed = TRUE
    /\ wire = <<>>
    /\ delayAtSend = 0
    /\ pc = [t \in Threads |-> "idle"]
    /\ wake = [t \in Threads |-> 0]
    /\ loaded = [t \in Threads |-> 0]
    /\ lock = 0
    /\ sent_at = <<>>

\* one caller at a time
Init == InitClient /\ locking = FALSE

\* the caller idles for one tick
Tick ==
    /\ now < MaxTime
    /\ now' = now + 1
    /\ burst' = 0
    /\ burstStart' = 0
    /\ res' = [op |-> "idle", raised |-> ""]
    /\ wire' = <<>>
    /\ UNCHANGED <<next_request_at, delay, lastSentAt, prevSentAt, delayFixed,
                   delayAtSend>>
    /\ UNCHANGED threadVars
    /\ UNCHANGED configVars

\* ------------------------------------------------------------------------
\* Configuration setters of Client
\* ------------------------------------------------------------------------
\* mutant of set_limit: the test is `value < 0`, so 0 is accepted
set_limit_accepts_zero(value) ==
    LET c == PyInt(value) IN
    /\ IF c[1] /\ c[2] >= 0
       THEN /\ limit' = c[2]
            /\ res' = [op |-> "set_limit", raised |-> "", value |-> value]
       ELSE /\ limit' = limit
            /\ res' = [op |-> "set_limit", raised |-> "ValueError", value |-> value]
    /\ UNCHANGED <<anime_fields, manga_fields, include_nsfw, auto_truncate>>
    /\ NoRequest

\* limit.setter
set_limit(value) ==
    LET c == PyInt(value) IN
    /\ IF c[1] /\ c[2] > 0
       THEN /\ limit' = c[2]
            /\ res' = [op |-> "set_limit", raised |-> "", value |-> value]
       ELSE /\ limit' = limit
            /\ res' = [op |-> "set_limit", raised |-> "ValueError", value |-> value]
    /\ UNCHANGED <<anime_fields, manga_fields, include_nsfw, auto_truncate>>
    /\ NoRequest

\* mutant of set_delay: a delay below one second is rejected, not warned about
set_delay_hard_floor(d) ==
    /\ IF d < TicksPerSecond
       THEN /\ delay' = delay
            /\ delayFixed' = delayFixed
            /\ burst' = burst
            /\ burstStart' = burstStart
            /\ res' = [op |-> "set_delay", raised |-> "ValueError", value |-> d,
                       warned |-> FALSE]
       ELSE /\ delay' = d
            /\ delayFixed' = (delayFixed /\ lastSentAt = NoTime)
            /\ burst' = 0
            /\ burstStart' = 0
            /\ res' = [op |-> "set_delay", raised |-> "", value |-> d,
                       warned |-> FALSE]
    /\ wire' = <<>>
    /\ UNCHANGED <<now, next_request_at, lastSentAt, prevSentAt, delayAtSend>>
    /\ UNCHANGED threadVars
    /\ UNCHANGED configVars

\* delay.setter; d in ticks
set_delay(d) ==
    /\ IF d < 0
       THEN /\ delay' = delay
            /\ delayFixed' = delayFixed
            /\ burst' = burst
            /\ burstStart' = burstStart
            /\ res' = [op |-> "set_delay", raised |-> "ValueError", value |-> d,
                       warned |-> FALSE]
       ELSE /\ delay' = d
            /\ delayFixed' = (delayFixed /\ lastSentAt = NoTime)
            /\ burst' = 0
            /\ burstStart' = 0
            /\ res' = [op |-> "set_delay", raised |-> "", value |-> d,
                       warned |-> (d < TicksPerSecond)]
    /\ wire' = <<>>
    /\ UNCHANGED <<now, next_request_at, lastSentAt, prevSentAt, delayAtSend>>
    /\ UNCHANGED threadVars
    /\ UNCHANGED configVars

\* mutant of set_anime_fields: the parsed list is stored as it is, without
\* the is_anime filter
set_anime_fields_unfiltered(new_fields) ==
    /\ anime_fields' = from_list(new_fields)
    /\ res' = [op |-> "set_anime_fields", raised |-> "", value |-> new_fields]
    /\ UNCHANGED <<limit, manga_fields, include_nsfw, auto_truncate>>
    /\ NoRequest

\* anime_fields.setter
set_anime_fields(new_fields) ==
    /\ anime_fields' = SelectSeq(from_list(new_fields), FieldIsAnime)
    /\ res' = [op |-> "set_anime_fields", raised |-> "", value |-> new_fields]
    /\ UNCHANGED <<limit, manga_fields, include_nsfw, auto_truncate>>
    /\ NoRequest

\* manga_fields.setter
set_manga_fields(new_fields) ==
    /\ manga_fields' = SelectSeq(from_list(new_fields), FieldIsManga)
    /\ res' = [op |-> "set_manga_fields", raised |-> "", value |-> new_fields]
    /\ UNCHANGED <<limit, anime_fields, include_nsfw, auto_truncate>>
    /\ NoRequest

\* include_nsfw.setter
set_include_nsfw(value) ==
    /\ include_nsfw' = value
    /\ res' = [op |-> "set_include_nsfw", raised |-> "", value |-> value]
    /\ UNCHANGED <<limit, anime_fields, manga_fields, auto_truncate>>
    /\ NoRequest

\* auto_truncate.setter
set_auto_truncate(value) ==
    /\ auto_truncate' = value
    /\ res' = [op |-> "set_auto_truncate", raised |-> "", value |-> value]
    /\ UNCHANGED <<limit, anime_fields, manga_fields, include_nsfw>>
    /\ NoRequest

\* ------------------------------------------------------------------------
\* Request methods of Client
\* ------------------------------------------------------------------------
RequestOps == {"anime_search", "manga_search", "get_anime", "get_manga",
               "get_anime_list", "get_manga_list", "get_seasonal_anime",
               "get_topics", "get_topic_details"}

\* the preceding operation was a request method given a per-call limit,
\* offset, fields or include_nsfw
Overrode ==
    /\ res.op \in RequestOps
    /\ \/ res.args.limit # MISSING
       \/ res.args.offset # MISSING
       \/ res.args.fields # MISSING
       \/ res.args.nsfw # MISSING

\* mutant of Request: the per-call limit and include_nsfw are stored in the
\* client, as if the method had assigned self.limit and self.include_nsfw
Request_stores_overrides(op, endpoint, tail, a, outcome, dur) ==
    LET b == build_parameters(endpoint, a, Defaults)
        url == [endpoint |-> endpoint, tail |-> tail]
    IN
    /\ IF b.raised # ""
       THEN /\ res' = [op |-> op, endpoint |-> endpoint, args |-> a,
                       raised |-> b.raised, sent |-> FALSE, params |-> NoParams,
                       url |-> [endpoint |-> endpoint, tail |-> <<>>],
                       data |-> MISSING, after_override |-> Overrode]
            /\ NoRequest
       ELSE /\ ApiCall(url, b.params, outcome, dur)
            /\ res' = [op |-> op, endpoint |-> endpoint, args |-> a,
                       raised |-> ApiRaised(outcome), sent |-> TRUE,
                       params |-> b.params, url |-> url, outcome |-> outcome,
                       data |-> ApiReturns(outcome), after_override |-> Overrode]
    /\ limit' = IF a.limit # MISSING THEN get_limit(endpoint, a.limit[1]) ELSE limit
    /\ include_nsfw' = IF a.nsfw # MISSING THEN a.nsfw[1] ELSE include_nsfw
    /\ UNCHANGED <<anime_fields, manga_fields, auto_truncate>>

\* a request method: build the parameters, then api_call(url, parameters)
Request(op, endpoint, tail, a, outcome, dur) ==
    LET b == build_parameters(endpoint, a, Defaults)
        url == [endpoint |-> endpoint, tail |-> tail]
    IN
    /\ IF b.raised # ""
       THEN /\ res' = [op |-> op, endpoint |-> endpoint, args |-> a,
                       raised |-> b.raised, sent |-> FALSE, params |-> NoParams,
                       url |-> [endpoint |-> endpoint, tail |-> <<>>],
                       data |-> MISSING, after_override |-> Overrode]
            /\ NoRequest
       ELSE /\ ApiCall(url, b.params, outcome, dur)
            /\ res' = [op |-> op, endpoint |-> endpoint, args |-> a,
                       raised |-> ApiRaised(outcome), sent |-> TRUE,
                       params |-> b.params, url |-> url, outcome |-> outcome,
                       data |-> ApiReturns(outcome), after_override |-> Overrode]
    /\ UNCHANGED configVars

anime_search(query, lim, off, fields, nsfw, outcome, dur) ==
    LET a == [NoArgs EXCEPT !.query = Some(query), !.limit = lim, !.offset = off,
                            !.fields = fields, !.nsfw = nsfw]
    IN  Request("anime_search", "ANIME", <<>>, a, outcome, dur)

manga_search(query, lim, off, fields, nsfw, outcome, dur) ==
    LET a == [NoArgs EXCEPT !.query = Some(query), !.limit = lim, !.offset = off,
                            !.fields = fields, !.nsfw = nsfw]
    IN  Request("manga_search", "MANGA", <<>>, a, outcome, dur)

\* an id given as an int, and as the url of a page
IntId(n) == [kind |-> "int", n |-> n, s |-> <<>>]

UrlId(s) == [kind |-> "str", n |-> 0, s |-> s]

RECURSIVE Split(_)
\* value.split('/'): the pieces of value between its '/' characters
Split(value) ==
    IF \A i \in 1..Len(value) : value[i] # "/" THEN <<value>>
    ELSE LET k == CHOOSE i \in 1..Len(value) :
                      value[i] = "/" /\ \A j \in 1..(i - 1) : value[j] # "/"
         IN  <<SubSeq(value, 1, k - 1)>> \o Split(SubSeq(value, k + 1, Len(value)))

\* mutant of get_as_id: the last piece of the url is taken, _[-1]
get_as_id_last(value) ==
    IF value.kind = "int" THEN [raised |-> "", id |-> Str(value.n)]
    ELSE LET pieces == Split(value.s) IN
         [raised |-> "", id |-> pieces[Len(pieces)]]

\* Client._get_as_id: [raised, id]; _[-2] of a single piece is an IndexError
get_as_id(value) ==
    IF value.kind = "int" THEN [raised |-> "", id |-> Str(value.n)]
    ELSE LET pieces == Split(value.s) IN
         IF Len(pieces) < 2 THEN [raised |-> "IndexError", id |-> <<>>]
         ELSE [raised |-> "", id |-> pieces[Len(pieces) - 1]]

\* get_anime / get_manga: the parameters are built, then the id is extracted
get_by_id(op, endpoint, id, fields, outcome, dur) ==
    LET a == [NoArgs EXCEPT !.fields = fields, !.id = Some(id)]
        g == get_as_id(id)
    IN  IF g.raised # ""
        THEN /\ res' = [op |-> op, endpoint |-> endpoint, args |-> a,
                        raised |-> g.raised, sent |-> FALSE, params |-> NoParams,
                        url |-> [endpoint |-> endpoint, tail |-> <<>>],
                        data |-> MISSING, after_override |-> Overrode]
             /\ NoRequest
             /\ UNCHANGED configVars
        ELSE Request(op, endpoint, <<g.id>>, a, outcome, dur)

get_anime(id, fields, outcome, dur) ==
    get_by_id("get_anime", "ANIME", id, fields, outcome, dur)

get_manga(id, fields, outcome, dur) ==
    get_by_id("get_manga", "MANGA", id, fields, outcome, dur)

get_anime_list(lim, off, fields, status, sort, nsfw, outcome, dur) ==
    LET a == [NoArgs EXCEPT !.limit = lim, !.offset = off, !.fields = fields,
                            !.status = status, !.sort = sort, !.nsfw = nsfw]
    IN  Request("get_anime_list", "USER_ANIMELIST", <<>>, a, outcome, dur)

get_manga_list(lim, off, fields, status, sort, nsfw, outcome, dur) ==
    LET a == [NoArgs EXCEPT !.limit = lim, !.offset = off, !.fields = fields,
                            !.status = status, !.sort = sort, !.nsfw = nsfw]
    IN  Request("get_manga_list", "USER_MANGALIST", <<>>, a, outcome, dur)

\* mutant of get_seasonal_anime: the season is validated after the request
get_seasonal_anime_validates_late(year, season, lim, off, fields, sort, nsfw, outcome, dur) ==
    LET a == [NoArgs EXCEPT !.limit = lim, !.offset = off, !.fields = fields,
                            !.sort = sort, !.nsfw = nsfw, !.season = Some(season)]
        b == build_parameters("ANIME_SEASONAL", a, Defaults)
        url == [endpoint |-> "ANIME_SEASONAL", tail |-> <<Str(year), season.value>>]
    IN  IF b.raised = "" /\ season.value \notin SeasonValues
        THEN /\ ApiCall(url, b.params, outcome, dur)
             /\ res' = [op |-> "get_seasonal_anime", endpoint |-> "ANIME_SEASONAL",
                        args |-> a, raised |-> "ValueError", sent |-> TRUE,
                        params |-> b.params, url |-> url, outcome |-> outcome,
                        data |-> MISSING, after_override |-> Overrode]
             /\ UNCHANGED configVars
        ELSE Request("get_seasonal_anime", "ANIME_SEASONAL",
                     <<Str(year), season.value>>, a, outcome, dur)

\* get_seasonal_anime: the season is validated after the parameters are built
get_seasonal_anime(year, season, lim, off, fields, sort, nsfw, outcome, dur) ==
    LET a == [NoArgs EXCEPT !.limit = lim, !.offset = off, !.fields = fields,
                            !.sort = sort, !.nsfw = nsfw, !.season = Some(season)]
        b == build_parameters("ANIME_SEASONAL", a, Defaults)
    IN  IF b.raised = "" /\ season.value \notin SeasonValues
        THEN /\ res' = [op |-> "get_seasonal_anime", endpoint |-> "ANIME_SEASONAL",
                        args |-> a, raised |-> "ValueError", sent |-> FALSE,
                        params |-> NoParams,
                        url |-> [endpoint |-> "ANIME_SEASONAL", tail |-> <<>>],
                        data |-> MISSING, after_override |-> Overrode]
             /\ NoRequest
             /\ UNCHANGED configVars
        ELSE Request("get_seasonal_anime", "ANIME_SEASONAL",
                     <<Str(year), season.value>>, a, outcome, dur)

get_topics(query, board_id, subboard_id, lim, off, topic_user_name, user_name, outcome, dur) ==
    LET a == [NoArgs EXCEPT !.query = query, !.board_id = board_id,
                            !.subboard_id = subboard_id, !.limit = lim,
                            !.offset = off, !.topic_user_name = topic_user_name,
                            !.user_name = user_name]
    IN  Request("get_topics", "FORUM_TOPICS", <<>>, a, outcome, dur)

\* get_topic_details builds its two parameters itself
get_topic_details(topic_id, lim, off, outcome, dur) ==
    LET parameters ==
            [NoParams EXCEPT
               !.limit = IF lim # MISSING
                         THEN Some(Str(get_limit("FORUM_TOPIC_DETAIL", lim[1])))
                         ELSE MISSING,
               !.offset = StrOpt(off)]
        url == [endpoint |-> "FORUM_TOPIC_DETAIL", tail |-> <<Str(topic_id)>>]
    IN
    /\ ApiCall(url, parameters, outcome, dur)
    /\ res' = [op |-> "get_topic_details", endpoint |-> "FORUM_TOPIC_DETAIL",
               args |-> [NoArgs EXCEPT !.limit = lim, !.offset = off],
               raised |-> ApiRaised(outcome), sent |-> TRUE,
               params |-> parameters, url |-> url, outcome |-> outcome,
               data |-> ApiReturns(outcome), after_override |-> Overrode]
    /\ UNCHANGED configVars

\* ------------------------------------------------------------------------
\* Rankings (mal/base.py, mal/anime.py, mal/manga.py)
\* ------------------------------------------------------------------------
\* the values of AnimeRankingType and of MangaRankingType, as characters
AnimeRankingTypeValues ==
    {<<"a", "l", "l">>,
     <<"a", "i", "r", "i", "n", "g">>,
     <<"u", "p", "c", "o", "m", "i", "n", "g">>,
     <<"t", "v">>,
     <<"o", "v", "a">>,
     <<"m", "o", "v", "i", "e">>,
     <<"s", "p", "e", "c", "i", "a", "l">>,
     <<"b", "y", "p", "o", "p", "u", "l", "a", "r", "i", "t", "y">>,
     <<"f", "a", "v", "o", "r", "i", "t", "e">>}

MangaRankingTypeValues ==
    {<<"a", "l", "l">>,
     <<"m", "a", "n", "g", "a">>,
     <<"n", "o", "v", "e", "l", "s">>,
     <<"o", "n", "e", "s", "h", "o", "t", "s">>,
     <<"d", "o", "u", "j", "i", "n">>,
     <<"m", "a", "n", "h", "w", "a">>,
     <<"m", "a", "n", "h", "u", "a">>,
     <<"b", "y", "p", "o", "p", "u", "l", "a", "r", "i", "t", "y">>,
     <<"f", "a", "v", "o", "r", "i", "t", "e">>}

RankingTypeValues(cls) ==
    IF cls = "AnimeRanking" THEN AnimeRankingTypeValues ELSE MangaRankingTypeValues

\* 'ranking_type'
RankingTypeName ==
    <<"r", "a", "n", "k", "i", "n", "g", "_", "t", "y", "p", "e">>

\* links of a ranking page as the server can write them: with ranking_type
\* after another parameter,
\* 'https://api.myanimelist.net/v2/anime/ranking?offset=4&ranking_type=all&limit=4'
LinkTypeInside ==
    <<"h", "t", "t", "p", "s", ":", "/", "/", "a", "p", "i", ".", "m", "y",
      "a", "n", "i", "m", "e", "l", "i", "s", "t", ".", "n", "e", "t", "/",
      "v", "2", "/", "a", "n", "i", "m", "e", "/", "r", "a", "n", "k", "i",
      "n", "g", "?", "o", "f", "f", "s", "e", "t", "=", "4", "&", "r", "a",
      "n", "k", "i", "n", "g", "_", "t", "y", "p", "e", "=", "a", "l", "l",
      "&", "l", "i", "m", "i", "t", "=", "4">>

\* 'https://api.myanimelist.net/v2/anime/ranking?offset=0&ranking_type=bypopularity'
LinkTypeLast ==
    <<"h", "t", "t", "p", "s", ":", "/", "/", "a", "p", "i", ".", "m", "y",
      "a", "n", "i", "m", "e", "l", "i", "s", "t", ".", "n", "e", "t", "/",
      "v", "2", "/", "a", "n", "i", "m", "e", "/", "r", "a", "n", "k", "i",
      "n", "g", "?", "o", "f", "f", "s", "e", "t", "=", "0", "&", "r", "a",
      "n", "k", "i", "n", "g", "_", "t", "y", "p", "e", "=", "b", "y", "p",
      "o", "p", "u", "l", "a", "r", "i", "t", "y">>

\* with ranking_type as the first parameter,
\* 'https://api.myanimelist.net/v2/anime/ranking?ranking_type=all&offset=4'
LinkTypeFirst ==
    <<"h", "t", "t", "p", "s", ":", "/", "/", "a", "p", "i", ".", "m", "y",
      "a", "n", "i", "m", "e", "l", "i", "s", "t", ".", "n", "e", "t", "/",
      "v", "2", "/", "a", "n", "i", "m", "e", "/", "r", "a", "n", "k", "i",
      "n", "g", "?", "r", "a", "n", "k", "i", "n", "g", "_", "t", "y", "p",
      "e", "=", "a", "l", "l", "&", "o", "f", "f", "s", "e", "t", "=", "4">>

\* and without it, 'https://api.myanimelist.net/v2/anime/ranking?offset=4&limit=4'
LinkNoType ==
    <<"h", "t", "t", "p", "s", ":", "/", "/", "a", "p", "i", ".", "m", "y",
      "a", "n", "i", "m", "e", "l", "i", "s", "t", ".", "n", "e", "t", "/",
      "v", "2", "/", "a", "n", "i", "m", "e", "/", "r", "a", "n", "k", "i",
      "n", "g", "?", "o", "f", "f", "s", "e", "t", "=", "4", "&", "l", "i",
      "m", "i", "t", "=", "4">>

RECURSIVE SplitBy(_, _)
\* value.split(sep) for a separator of one character
SplitBy(value, sep) ==
    IF \A i \in 1..Len(value) : value[i] # sep THEN <<value>>
    ELSE LET k == CHOOSE i \in 1..Len(value) :
                      value[i] = sep /\ \A j \in 1..(i - 1) : value[j] # sep
         IN  <<SubSeq(value, 1, k - 1)>> \o SplitBy(SubSeq(value, k + 1, Len(value)), sep)

\* s.startswith(prefix)
StartsWith(s, prefix) ==
    Len(s) >= Len(prefix) /\ SubSeq(s, 1, Len(prefix)) = prefix

\* the states of the attribute _type of a ranking: never assigned, assigned
\* the MISSING marker, assigned a string, assigned a member of cls
TypeUnassigned == [kind |-> "unassigned", value |-> <<>>]

TypeMissing == [kind |-> "MISSING", value |-> <<>>]

TypeStr(v) == [kind |-> "str", value |-> v]

TypeMember(cls, v) == [kind |-> cls, value |-> v]

\* Ranking.__init__, the choice of the url: prev_page, else next_page, else
\* None.  A payload is [previous, next], each a link or absent.
ranking_url(data) ==
    IF data.previous # MISSING THEN data.previous
    ELSE IF data.next # MISSING THEN data.next
    ELSE MISSING

\* Ranking.__init__: [raised, type].  Every piece of url.split('&') that
\* starts with 'ranking_type' assigns _type, the last one last; without a url
\* _type is MISSING; with a url and no such piece _type is never assigned
Ranking_init(data) ==
    LET url == ranking_url(data) IN
    IF url = MISSING THEN [raised |-> "", type |-> TypeMissing]
    ELSE LET parameters == SplitBy(url[1], "&")
             found == {i \in 1..Len(parameters) :
                           StartsWith(parameters[i], RankingTypeName)}
         IN  IF found = {} THEN [raised |-> "", type |-> TypeUnassigned]
             ELSE LET last == CHOOSE i \in found : \A j \in found : j <= i
                      pieces == SplitBy(parameters[last], "=")
                  IN  IF Len(pieces) < 2
                      THEN [raised |-> "IndexError", type |-> TypeUnassigned]
                      ELSE [raised |-> "", type |-> TypeStr(pieces[2])]

\* AnimeRanking.__init__ / MangaRanking.__init__: [raised, type].  Reading a
\* _type that was never assigned is an AttributeError; a string is converted
\* with AnimeRankingType(...) / MangaRankingType(...)
TypedRanking_init(cls, data) ==
    LET r == Ranking_init(data) IN
    IF r.raised # "" THEN r
    ELSE IF r.type.kind = "unassigned"
         THEN [raised |-> "AttributeError", type |-> TypeUnassigned]
    ELSE IF r.type.kind = "MISSING" THEN r
    ELSE IF r.type.value \in RankingTypeValues(cls)
         THEN [raised |-> "", type |-> TypeMember(cls, r.type.value)]
         ELSE [raised |-> "ValueError", type |-> r.type]

\* get_anime_ranking / get_manga_ranking: the parameters are built, a string
\* ranking_type is converted to the enumeration, the request is made, the
\* ranking is built from the payload of the response and its type is set
get_ranking(op, endpoint, cls, ranking_type, lim, off, fields, outcome, dur, payload) ==
    LET a == [NoArgs EXCEPT !.limit = lim, !.offset = off, !.fields = fields,
                            !.ranking_type = Some(ranking_type)]
        b == build_parameters(endpoint, a, Defaults)
        url == [endpoint |-> endpoint, tail |-> <<>>]
        invalid == ranking_type.cls = "str"
                   /\ ranking_type.value \notin RankingTypeValues(cls)
        parameters == [b.params EXCEPT !.ranking_type = Some(ranking_type.value)]
        requested == IF ranking_type.cls = "str"
                     THEN TypeMember(cls, ranking_type.value)
                     ELSE TypeMember(ranking_type.cls, ranking_type.value)
        built == TypedRanking_init(cls, payload)
    IN
    /\ IF b.raised # "" \/ invalid
       THEN /\ res' = [op |-> op, endpoint |-> endpoint, args |-> a,
                       raised |-> IF b.raised # "" THEN b.raised ELSE "ValueError",
                       sent |-> FALSE, params |-> NoParams, url |-> url,
                       data |-> MISSING, after_override |-> Overrode,
                       returned |-> MISSING]
            /\ NoRequest
       ELSE /\ ApiCall(url, parameters, outcome, dur)
            /\ res' = [op |-> op, endpoint |-> endpoint, args |-> a,
                       raised |-> IF ApiRaised(outcome) # "" THEN ApiRaised(outcome)
                                  ELSE built.raised,
                       sent |-> TRUE, params |-> parameters, url |-> url,
                       outcome |-> outcome, data |-> ApiReturns(outcome),
                       after_override |-> Overrode, payload |-> payload,
                       returned |-> IF ApiRaised(outcome) = "" /\ built.raised = ""
                                    THEN Some([cls |-> cls, type |-> requested])
                                    ELSE MISSING]
    /\ UNCHANGED configVars

get_anime_ranking(ranking_type, lim, off, fields, outcome, dur, payload) ==
    get_ranking("get_anime_ranking", "ANIME_RANKING", "AnimeRanking", ranking_type,
                lim, off, fields, outcome, dur, payload)

get_manga_ranking(ranking_type, lim, off, fields, outcome, dur, payload) ==
    get_ranking("get_manga_ranking", "MANGA_RANKING", "MangaRanking", ranking_type,
                lim, off, fields, outcome, dur, payload)

\* a caller of AnimeRanking(data) / MangaRanking(data)
new_ranking(cls, payload) ==
    LET built == TypedRanking_init(cls, payload) IN
    /\ res' = [op |-> "new_ranking", cls |-> cls, payload |-> payload,
               raised |-> built.raised, type |-> built.type]
    /\ UNCHANGED configVars
    /\ NoRequest

\* what previous_page / next_page hand back for the data of the page, <<>>
\* when it is empty and <<payload>> otherwise: paginated.__class__(data), and
\* None for data that is empty.  ForumTopics cannot be built from the data
\* alone (its __init__ also takes the query); a ranking takes its type from
\* the links of the data
page_result(paginated, outcome, data) ==
    IF ApiRaised(outcome) # "" THEN [raised |-> ApiRaised(outcome), returned |-> MISSING]
    ELSE IF data = MISSING THEN [raised |-> "", returned |-> MISSING]
    ELSE IF paginated.cls = "ForumTopics"
         THEN [raised |-> "TypeError", returned |-> MISSING]
    ELSE IF paginated.cls \in {"AnimeRanking", "MangaRanking"}
         THEN LET built == TypedRanking_init(paginated.cls, data[1]) IN
              IF built.raised # ""
              THEN [raised |-> built.raised, returned |-> MISSING]
              ELSE [raised |-> "",
                    returned |-> Some([cls |-> paginated.cls, type |-> built.type])]
         ELSE [raised |-> "", returned |-> Some([cls |-> paginated.cls])]

\* mutant of previous_page: the test is on paginated.next_page
previous_page_tests_next(paginated, outcome, dur, data) ==
    LET r == page_result(paginated, outcome, data) IN
    /\ IF paginated.next_page = MISSING
       THEN /\ res' = [op |-> "previous_page", paginated |-> paginated,
                       link |-> paginated.prev_page, raised |-> "", sent |-> FALSE,
                       returned |-> MISSING]
            /\ NoRequest
       ELSE /\ ApiCall(paginated.prev_page, MISSING, outcome, dur)
            /\ res' = [op |-> "previous_page", paginated |-> paginated,
                       link |-> paginated.prev_page, raised |-> r.raised,
                       sent |-> TRUE, returned |-> r.returned, outcome |-> outcome,
                       data |-> ApiReturns(outcome), page |-> data]
    /\ UNCHANGED configVars

\* Client.previous_page; None is <<>>
previous_page(paginated, outcome, dur, data) ==
    LET r == page_result(paginated, outcome, data) IN
    /\ IF paginated.prev_page = MISSING
       THEN /\ res' = [op |-> "previous_page", paginated |-> paginated,
                       link |-> paginated.prev_page, raised |-> "", sent |-> FALSE,
                       returned |-> MISSING]
            /\ NoRequest
       ELSE /\ ApiCall(paginated.prev_page, MISSING, outcome, dur)
            /\ res' = [op |-> "previous_page", paginated |-> paginated,
                       link |-> paginated.prev_page, raised |-> r.raised,
                       sent |-> TRUE, returned |-> r.returned, outcome |-> outcome,
                       data |-> ApiReturns(outcome), page |-> data]
    /\ UNCHANGED configVars

\* Client.next_page
next_page(paginated, outcome, dur, data) ==
    LET r == page_result(paginated, outcome, data) IN
    /\ IF paginated.next_page = MISSING
       THEN /\ res' = [op |-> "next_page", paginated |-> paginated,
                       link |-> paginated.next_page, raised |-> "", sent |-> FALSE,
                       returned |-> MISSING]
            /\ NoRequest
       ELSE /\ ApiCall(paginated.next_page, MISSING, outcome, dur)
            /\ res' = [op |-> "next_page", paginated |-> paginated,
                       link |-> paginated.next_page, raised |-> r.raised,
                       sent |-> TRUE, returned |-> r.returned, outcome |-> outcome,
                       data |-> ApiReturns(outcome), page |-> data]
    /\ UNCHANGED configVars

\* ------------------------------------------------------------------------
\* Arguments the callers pass
\* ------------------------------------------------------------------------
\* a string of n characters, all positions told apart modulo 10
QueryOf(n) == [i \in 1..n |-> Digits[(i % 10) + 1]]

QueryLens(max_len) ==
    {0, MinQueryLen - 1, MinQueryLen, max_len} \cup {max_len + k : k \in 1..MaxOver}

SearchQueries == {QueryOf(n) : n \in QueryLens(MaxQueryLenSearch)}

ForumQueries == {QueryOf(n) : n \in QueryLens(MaxQueryLenForum)}

LimitArgs(endpoint) ==
    LET M == EndpointLimit(endpoint)[1] IN
    {MISSING} \cup {Some(v) : v \in {0 - 1, 0, 1, M} \cup {M + k : k \in 1..MaxOver}}

OffsetArgs == {MISSING, Some(2)}

FieldArgs ==
    {MISSING,
     Some(<<EnumTok("Field", "id"), StrTok("authors"), StrTok("not_a_field"),
            EnumTok("Field", "rating")>>)}

\* lists of field tokens: empty, every Field, a mix of members and strings
\* (valid, invalid, anime-only, manga-only, repeated), and non-field tokens
FieldLists ==
    {<<>>,
     AllFields,
     <<FieldMember("id"), StrTok("authors"), StrTok("not_a_field"),
       FieldMember("rating"), StrTok("id"), FieldMember("num_volumes")>>,
     <<EnumTok("Season", "winter"), StrTok("Id")>>}

NsfwArgs == {MISSING, Some(TRUE), Some(FALSE)}

NameArgs == {MISSING, Some(<<"u">>)}

IdArgs == {MISSING, Some(1)}

LimitValues ==
    {[kind |-> "int", n |-> n, s |-> <<>>] : n \in {0 - 10, 0, 1, 100, 101, 1001}}
    \cup {[kind |-> "float", n |-> t, s |-> <<>>] : t \in {1, 15}}
    \cup {[kind |-> "str", n |-> 0, s |-> s] : s \in {<<"-", "1", "0">>, <<"x">>}}

Winter == EnumTok("Season", "winter")

\* ------------------------------------------------------------------------
\* Spec: every setter and request method of the client; the clock moves only
\* by the pacer's own sleeps.
\* ------------------------------------------------------------------------
Next ==
    \/ \E value \in LimitValues : set_limit(value)
    \/ \E value \in BOOLEAN : set_include_nsfw(value)
    \/ \E value \in BOOLEAN : set_auto_truncate(value)
    \/ \E query \in {QueryOf(MinQueryLen), QueryOf(MaxQueryLenSearch + 1)},
          lim \in {MISSING, Some(101)}, nsfw \in NsfwArgs :
            anime_search(query, lim, MISSING, MISSING, nsfw, "ok", 0)
    \/ \E query \in {QueryOf(MinQueryLen - 1), QueryOf(MaxQueryLenSearch)},
          off \in OffsetArgs, nsfw \in NsfwArgs :
            manga_search(query, MISSING, off, MISSING, nsfw, "ok", 0)
    \/ \E fields \in FieldArgs, outcome \in {"ok", "http_error"} :
            get_anime(IntId(16498), fields, outcome, 0)
    \/ \E fields \in FieldArgs : get_manga(IntId(2), fields, "ok", 0)
    \/ \E lim \in {MISSING, Some(1001)},
          status \in {MISSING, Some(StrTok("completed"))}, nsfw \in NsfwArgs :
            get_anime_list(lim, MISSING, MISSING, status, MISSING, nsfw, "ok", 0)
    \/ \E sort \in {MISSING, Some(StrTok("list_score"))}, nsfw \in NsfwArgs :
            get_manga_list(MISSING, MISSING, MISSING, MISSING, sort, nsfw, "ok", 0)
    \/ \E lim \in {MISSING, Some(0)}, nsfw \in NsfwArgs :
            get_seasonal_anime(2014, Winter, lim, MISSING, MISSING, MISSING, nsfw,
                               "ok", 0)
    \/ \E query \in {MISSING, Some(QueryOf(MinQueryLen))}, board_id \in IdArgs,
          lim \in {MISSING, Some(100)} :
            get_topics(query, board_id, MISSING, lim, MISSING, MISSING, MISSING,
                       "ok", 0)
    \/ \E lim \in {MISSING, Some(101)}, off \in OffsetArgs :
            get_topic_details(1, lim, off, "ok", 0)

Spec == Init /\ [][Next]_vars

\* ------------------------------------------------------------------------
\* SpecPacer: one client under every schedule of idle time, delay
\* assignments, request durations and transport outcomes.
\* ------------------------------------------------------------------------
NextPacer ==
    \/ Tick
    \/ \E d \in (0 - 1)..MaxDelay : set_delay(d)
    \/ \E outcome \in Outcomes, dur \in 0..MaxDur :
            get_anime(IntId(53887), MISSING, outcome, dur)

SpecPacer == Init /\ [][NextPacer]_vars

\* ------------------------------------------------------------------------
\* SpecSchedule: the same schedules with a transport that always answers
\* (with an OK or a non-OK status).
\* ------------------------------------------------------------------------
NextSchedule ==
    \/ Tick
    \/ \E d \in (0 - 1)..MaxDelay : set_delay(d)
    \/ \E outcome \in {"ok", "http_error"}, dur \in 0..MaxDur :
            get_anime(IntId(53887), MISSING, outcome, dur)

SpecSchedule == Init /\ [][NextSchedule]_vars

\* ------------------------------------------------------------------------
\* SpecLimit: every assignment to the default limit, and every request
\* method that sends a 'limit', over per-call limits around the bounds.
\* ------------------------------------------------------------------------
NextLimit ==
    \/ \E value \in LimitValues : set_limit(value)
    \/ \E lim \in LimitArgs("ANIME") :
            anime_search(QueryOf(MinQueryLen), lim, MISSING, MISSING, MISSING, "ok", 0)
    \/ \E lim \in LimitArgs("MANGA") :
            manga_search(QueryOf(MinQueryLen), lim, MISSING, MISSING, MISSING, "ok", 0)
    \/ get_anime(IntId(16498), MISSING, "ok", 0)
    \/ get_manga(IntId(2), MISSING, "ok", 0)
    \/ \E lim \in LimitArgs("USER_ANIMELIST") :
            get_anime_list(lim, MISSING, MISSING, MISSING, MISSING, MISSING, "ok", 0)
    \/ \E lim \in LimitArgs("USER_MANGALIST") :
            get_manga_list(lim, MISSING, MISSING, MISSING, MISSING, MISSING, "ok", 0)
    \/ \E lim \in LimitArgs("ANIME_SEASONAL") :
            get_seasonal_anime(2014, Winter, lim, MISSING, MISSING, MISSING, MISSING,
                               "ok", 0)
    \/ \E lim \in LimitArgs("FORUM_TOPICS") :
            get_topics(MISSING, MISSING, MISSING, lim, MISSING, MISSING, MISSING,
                       "ok", 0)
    \/ \E lim \in LimitArgs("FORUM_TOPIC_DETAIL") :
            get_topic_details(1, lim, MISSING, "ok", 0)

SpecLimit == Init /\ [][NextLimit]_vars

\* ------------------------------------------------------------------------
\* SpecQuery: the three methods that take a free-text query, over query
\* lengths around the bounds, with auto_truncate switched on and off.
\* ------------------------------------------------------------------------
NextQuery ==
    \/ \E value \in BOOLEAN : set_auto_truncate(value)
    \/ \E query \in SearchQueries, lim \in {MISSING, Some(5)} :
            anime_search(query, lim, MISSING, MISSING, MISSING, "ok", 0)
    \/ \E query \in SearchQueries, off \in OffsetArgs :
            manga_search(query, MISSING, off, MISSING, MISSING, "ok", 0)
    \/ \E query \in ForumQueries, lim \in {MISSING, Some(5)} :
            get_topics(Some(query), MISSING, MISSING, lim, MISSING, MISSING, MISSING,
                       "ok", 0)
    \/ \E board_id \in IdArgs, subboard_id \in IdArgs, lim \in {MISSING, Some(5)},
          off \in OffsetArgs, topic_user_name \in NameArgs, user_name \in NameArgs :
            get_topics(MISSING, board_id, subboard_id, lim, off, topic_user_name,
                       user_name, "ok", 0)

SpecQuery == Init /\ [][NextQuery]_vars

\* ------------------------------------------------------------------------
\* SpecFields: every assignment of a field list to the two defaults, and
\* every request method that sends 'fields', with and without per-call fields.
\* ------------------------------------------------------------------------
FieldsOrMissing == {MISSING} \cup {Some(fl) : fl \in FieldLists}

NextFields ==
    \/ \E new_fields \in FieldLists : set_anime_fields(new_fields)
    \/ \E new_fields \in FieldLists : set_manga_fields(new_fields)
    \/ \E fields \in FieldsOrMissing :
            anime_search(QueryOf(MinQueryLen), MISSING, MISSING, fields, MISSING, "ok", 0)
    \/ \E fields \in FieldsOrMissing :
            manga_search(QueryOf(MinQueryLen), MISSING, MISSING, fields, MISSING, "ok", 0)
    \/ \E fields \in FieldsOrMissing : get_anime(IntId(16498), fields, "ok", 0)
    \/ \E fields \in FieldsOrMissing : get_manga(IntId(2), fields, "ok", 0)
    \/ \E fields \in FieldsOrMissing, status \in {MISSING, Some(StrTok("completed"))} :
            get_anime_list(MISSING, MISSING, fields, status, MISSING, MISSING, "ok", 0)
    \/ \E fields \in FieldsOrMissing, status \in {MISSING, Some(StrTok("completed"))} :
            get_manga_list(MISSING, MISSING, fields, status, MISSING, MISSING, "ok", 0)
    \/ \E fields \in FieldsOrMissing :
            get_seasonal_anime(2014, Winter, MISSING, MISSING, fields, MISSING, MISSING,
                               "ok", 0)
    \/ get_topics(MISSING, Some(1), MISSING, MISSING, MISSING, MISSING, MISSING, "ok", 0)

SpecFields == Init /\ [][NextFields]_vars

\* ------------------------------------------------------------------------
\* SpecFromList: the Field enumeration.  Field.from_list applied to every
\* list of at most MaxTokens tokens: members of Field, strings that name a
\* field or do not, a member of another enumeration and an integer; is_anime
\* and is_manga of every member; all_anime() and all_manga().
\* ------------------------------------------------------------------------
FieldTokens ==
    {FieldMember("id"), FieldMember("authors"), StrTok("id"), StrTok("not_a_field"),
     EnumTok("Season", "winter"), [cls |-> "int", value |-> "5"]}

TokenLists == UNION {[1..n -> FieldTokens] : n \in 0..MaxTokens}

\* a caller of Field.from_list
from_list_call(fields) ==
    /\ res' = [op |-> "from_list", raised |-> "", value |-> fields,
               result |-> from_list(fields)]
    /\ UNCHANGED configVars
    /\ NoRequest

\* a caller reading is_anime and is_manga of a member of Field
field_flags(field) ==
    /\ res' = [op |-> "field_flags", raised |-> "", field |-> field,
               is_anime |-> FieldIsAnime(field), is_manga |-> FieldIsManga(field)]
    /\ UNCHANGED configVars
    /\ NoRequest

\* a caller of Field.all_anime()
all_anime_call ==
    /\ res' = [op |-> "all_anime", raised |-> "", result |-> all_anime]
    /\ UNCHANGED configVars
    /\ NoRequest

\* a caller of Field.all_manga()
all_manga_call ==
    /\ res' = [op |-> "all_manga", raised |-> "", result |-> all_manga]
    /\ UNCHANGED configVars
    /\ NoRequest

NextFromList ==
    \/ \E fields \in TokenLists : from_list_call(fields)
    \/ \E i \in 1..Len(AllFields) : field_flags(AllFields[i])
    \/ all_anime_call
    \/ all_manga_call

SpecFromList == Init /\ [][NextFromList]_vars

\* ------------------------------------------------------------------------
\* SpecVocab: the category of every endpoint, and status, sort and season
\* given as strings of either vocabulary and of none, and as enumeration
\* members, to the methods that take them and to _build_parameters on every
\* endpoint.
\* ------------------------------------------------------------------------
StatusArgs ==
    {MISSING, Some(StrTok("completed")), Some(StrTok("watching")),
     Some(StrTok("reading")), Some(StrTok("invalid_status")),
     Some(EnumTok("AnimeListStatus", "watching")),
     Some(EnumTok("MangaListStatus", "reading"))}

SortArgs ==
    {MISSING, Some(StrTok("list_score")), Some(StrTok("anime_title")),
     Some(StrTok("manga_title")), Some(StrTok("anime_score")),
     Some(StrTok("invalid_sort")), Some(EnumTok("SeasonalAnimeSort", "anime_score")),
     Some(EnumTok("MangaListSort", "manga_title"))}

SeasonArgs == {Winter, StrTok("winter"), StrTok("invalid_season")}

\* a direct call of _build_parameters(endpoint, status=status, sort=sort)
build_parameters_call(endpoint, status, sort) ==
    LET a == [NoArgs EXCEPT !.status = status, !.sort = sort]
        b == build_parameters(endpoint, a, Defaults)
    IN  /\ res' = [op |-> "_build_parameters", endpoint |-> endpoint, args |-> a,
                   raised |-> b.raised, sent |-> FALSE, params |-> b.params]
        /\ UNCHANGED configVars
        /\ NoRequest

\* a caller reading the category properties of an endpoint
endpoint_flags(endpoint) ==
    /\ res' = [op |-> "endpoint_flags", raised |-> "", endpoint |-> endpoint,
               is_anime |-> EndpointIsAnime(endpoint),
               is_manga |-> EndpointIsManga(endpoint),
               is_list |-> EndpointIsList(endpoint),
               is_forum |-> EndpointIsForum(endpoint),
               is_character |-> EndpointIsCharacter(endpoint)]
    /\ UNCHANGED configVars
    /\ NoRequest

NextVocab ==
    \/ \E endpoint \in AllEndpoints : endpoint_flags(endpoint)
    \/ \E status \in StatusArgs, sort \in SortArgs :
            get_anime_list(MISSING, MISSING, MISSING, status, sort, MISSING, "ok", 0)
    \/ \E status \in StatusArgs, sort \in SortArgs :
            get_manga_list(MISSING, MISSING, MISSING, status, sort, MISSING, "ok", 0)
    \/ \E season \in SeasonArgs, sort \in SortArgs :
            get_seasonal_anime(2014, season, MISSING, MISSING, MISSING, sort, MISSING,
                               "ok", 0)
    \/ \E endpoint \in Endpoints, status \in StatusArgs :
            build_parameters_call(endpoint, status, MISSING)
    \/ \E endpoint \in Endpoints, sort \in SortArgs :
            build_parameters_call(endpoint, MISSING, sort)

SpecVocab == Init /\ [][NextVocab]_vars

\* ------------------------------------------------------------------------
\* SpecIds: get_anime and get_manga given an int, the url of a page with and
\* without a title after the id, and a string without '/'.
\* ------------------------------------------------------------------------
\* 'https://myanimelist.net/anime/16498/Shingeki_no_Kyojin'
AnimePage ==
    <<"h", "t", "t", "p", "s", ":", "/", "/", "m", "y", "a", "n", "i", "m",
      "e", "l", "i", "s", "t", ".", "n", "e", "t", "/", "a", "n", "i", "m",
      "e", "/", "1", "6", "4", "9", "8", "/", "S", "h", "i", "n", "g", "e",
      "k", "i", "_", "n", "o", "_", "K", "y", "o", "j", "i", "n">>

\* 'https://myanimelist.net/anime/16498/'
AnimePageSlash ==
    <<"h", "t", "t", "p", "s", ":", "/", "/", "m", "y", "a", "n", "i", "m",
      "e", "l", "i", "s", "t", ".", "n", "e", "t", "/", "a", "n", "i", "m",
      "e", "/", "1", "6", "4", "9", "8", "/">>

\* 'https://myanimelist.net/anime/16498'
AnimePageBare ==
    <<"h", "t", "t", "p", "s", ":", "/", "/", "m", "y", "a", "n", "i", "m",
      "e", "l", "i", "s", "t", ".", "n", "e", "t", "/", "a", "n", "i", "m",
      "e", "/", "1", "6", "4", "9", "8">>

\* 'https://myanimelist.net/manga/2/Berserk'
MangaPage ==
    <<"h", "t", "t", "p", "s", ":", "/", "/", "m", "y", "a", "n", "i", "m",
      "e", "l", "i", "s", "t", ".", "n", "e", "t", "/", "m", "a", "n", "g",
      "a", "/", "2", "/", "B", "e", "r", "s", "e", "r", "k">>

\* '16498'
IdText ==
    <<"1", "6", "4", "9", "8">>

Ids ==
    {IntId(16498), IntId(2), UrlId(AnimePage), UrlId(AnimePageSlash),
     UrlId(AnimePageBare), UrlId(MangaPage), UrlId(IdText)}

NextIds ==
    \/ Tick
    \/ \E id \in Ids, outcome \in {"ok", "http_error"} :
            get_anime(id, MISSING, outcome, 0)
    \/ \E id \in Ids, outcome \in {"ok", "http_error"} :
            get_manga(id, MISSING, outcome, 0)

SpecIds == Init /\ [][NextIds]_vars

\* ------------------------------------------------------------------------
\* SpecPages: previous_page and next_page on paginated objects with and
\* without either link, under idle time and every transport outcome.
\* ------------------------------------------------------------------------
\* paging['previous'] / paging['next'] as the server gave them
PageLink(which) == Some([endpoint |-> "MANGA", tail |-> <<>>, page |-> which])

Paginated ==
    [cls : {"MangaSearchResults", "ForumTopics"},
     prev_page : {MISSING, PageLink("previous")},
     next_page : {MISSING, PageLink("next")}]

\* the payload of a first page
FirstPage == [previous |-> MISSING, next |-> Some(LinkTypeInside)]

NextPages ==
    \/ Tick
    \/ \E paginated \in Paginated, outcome \in Outcomes, data \in {MISSING, Some(FirstPage)} :
            previous_page(paginated, outcome, 0, data)
    \/ \E paginated \in Paginated, outcome \in Outcomes, data \in {MISSING, Some(FirstPage)} :
            next_page(paginated, outcome, 0, data)

SpecPages == Init /\ [][NextPages]_vars

\* ------------------------------------------------------------------------
\* SpecRanking: rankings built from every payload of RankingPayloads, and the
\* two ranking methods with a ranking type given as a string of either
\* vocabulary and of none, and as a member.
\* ------------------------------------------------------------------------
RankingPayloads ==
    [previous : {MISSING, Some(LinkTypeLast), Some(LinkNoType)},
     next : {MISSING, Some(LinkTypeInside), Some(LinkTypeFirst)}]

RankingClasses == {"AnimeRanking", "MangaRanking"}

\* 'all', 'airing' (anime only), 'manga' (manga only), 'weekly' (neither)
RankingTypeArgs(cls) ==
    {StrTok(<<"a", "l", "l">>),
     StrTok(<<"a", "i", "r", "i", "n", "g">>),
     StrTok(<<"m", "a", "n", "g", "a">>),
     StrTok(<<"w", "e", "e", "k", "l", "y">>),
     EnumTok(cls \o "Type", <<"f", "a", "v", "o", "r", "i", "t", "e">>)}

NextRanking ==
    \/ \E cls \in RankingClasses, payload \in RankingPayloads :
            new_ranking(cls, payload)
    \/ \E ranking_type \in RankingTypeArgs("AnimeRanking"), lim \in {MISSING, Some(10)},
          outcome \in {"ok", "http_error"}, payload \in RankingPayloads :
            get_anime_ranking(ranking_type, lim, MISSING, MISSING, outcome, 0, payload)
    \/ \E ranking_type \in RankingTypeArgs("MangaRanking"), lim \in {MISSING, Some(10)},
          outcome \in {"ok", "http_error"}, payload \in RankingPayloads :
            get_manga_ranking(ranking_type, lim, MISSING, MISSING, outcome, 0, payload)

SpecRanking == Init /\ [][NextRanking]_vars

\* ------------------------------------------------------------------------
\* SpecPaging: previous_page and next_page on an object of every paginated
\* class the client returns, with and without either link, answered with an
\* empty response and with pages whose links are written in every way.
\* ------------------------------------------------------------------------
PaginatedClasses ==
    {"AnimeSearchResults", "MangaSearchResults", "AnimeList", "MangaList",
     "AnimeRanking", "MangaRanking", "Seasonal", "AnimeCharactersList",
     "ForumTopics"}

PaginatedObjects ==
    [cls : PaginatedClasses,
     prev_page : {MISSING, PageLink("previous")},
     next_page : {MISSING, PageLink("next")}]

PageData == {MISSING} \cup {Some(payload) : payload \in RankingPayloads}

NextPaging ==
    \/ \E paginated \in PaginatedObjects, data \in PageData :
            previous_page(paginated, "ok", 0, data)
    \/ \E paginated \in PaginatedObjects, data \in PageData :
            next_page(paginated, "ok", 0, data)

SpecPaging == Init /\ [][NextPaging]_vars

\* ------------------------------------------------------------------------
\* SpecReject: every request method that validates an argument, with
\* arguments it accepts and arguments it rejects, between idle time.
\* ------------------------------------------------------------------------
RejectQueries ==
    {QueryOf(MinQueryLen - 1), QueryOf(MinQueryLen), QueryOf(MaxQueryLenSearch + 1)}

NextReject ==
    \/ Tick
    \/ \E value \in BOOLEAN : set_auto_truncate(value)
    \/ \E query \in RejectQueries :
            anime_search(query, MISSING, MISSING, MISSING, MISSING, "ok", 0)
    \/ \E query \in RejectQueries :
            manga_search(query, MISSING, MISSING, MISSING, MISSING, "ok", 0)
    \/ \E query \in RejectQueries :
            get_topics(Some(query), MISSING, MISSING, MISSING, MISSING, MISSING,
                       MISSING, "ok", 0)
    \/ \E status \in {MISSING, Some(StrTok("reading"))},
          sort \in {MISSING, Some(StrTok("manga_title"))} :
            get_anime_list(MISSING, MISSING, MISSING, status, sort, MISSING, "ok", 0)
    \/ \E status \in {MISSING, Some(StrTok("watching"))},
          sort \in {MISSING, Some(StrTok("anime_title"))} :
            get_manga_list(MISSING, MISSING, MISSING, status, sort, MISSING, "ok", 0)
    \/ \E season \in SeasonArgs, sort \in {MISSING, Some(StrTok("invalid_sort"))} :
            get_seasonal_anime(2014, season, MISSING, MISSING, MISSING, sort, MISSING,
                               "ok", 0)
    \/ \E ranking_type \in RankingTypeArgs("AnimeRanking") :
            get_anime_ranking(ranking_type, MISSING, MISSING, MISSING, "ok", 0, FirstPage)
    \/ \E ranking_type \in RankingTypeArgs("MangaRanking") :
            get_manga_ranking(ranking_type, MISSING, MISSING, MISSING, "ok", 0, FirstPage)

SpecReject == Init /\ [][NextReject]_vars

\* ------------------------------------------------------------------------
\* SpecThreads: the threads of Threads call api_call on one client, with and
\* without a lock around each call.  A thread can be preempted between any
\* two of: reading the clock and the slot, waking up, sending, and the read
\* and the write of `_next_request_at += delay`.
\* ------------------------------------------------------------------------
\* the calls begun so far
started == Len(sent_at) + Cardinality({t \in Threads : pc[t] \in {"wait", "sleep", "get"}})

\* the calls that have advanced the slot
completed == Len(sent_at) - Cardinality({t \in Threads : pc[t] \in {"load", "store"}})

\* what a step of a thread leaves alone
threadFrame ==
    /\ UNCHANGED <<now, delay, burst, burstStart, delayFixed, delayAtSend, locking>>
    /\ UNCHANGED configVars

\* mutant of enter_api_call: the lock is taken without waiting for it
enter_api_call_unlocked(t) ==
    /\ pc[t] = "idle"
    /\ started < MaxCalls
    /\ lock' = IF locking THEN t ELSE lock
    /\ pc' = [pc EXCEPT ![t] = "wait"]
    /\ res' = [op |-> "enter_api_call", raised |-> "", thread |-> t]
    /\ UNCHANGED <<next_request_at, lastSentAt, prevSentAt, wire, wake, loaded, sent_at>>
    /\ threadFrame

\* thread t calls api_call, after acquiring the lock when the callers use one
enter_api_call(t) ==
    /\ pc[t] = "idle"
    /\ started < MaxCalls
    /\ locking => lock = 0
    /\ lock' = IF locking THEN t ELSE lock
    /\ pc' = [pc EXCEPT ![t] = "wait"]
    /\ res' = [op |-> "enter_api_call", raised |-> "", thread |-> t]
    /\ UNCHANGED <<next_request_at, lastSentAt, prevSentAt, wire, wake, loaded, sent_at>>
    /\ threadFrame

\* wait_time = self._next_request_at - time.time(); sleep when it is positive
compute_wait(t) ==
    /\ pc[t] = "wait"
    /\ IF next_request_at - now > 0
       THEN /\ pc' = [pc EXCEPT ![t] = "sleep"]
            /\ wake' = [wake EXCEPT ![t] = next_request_at]
       ELSE /\ pc' = [pc EXCEPT ![t] = "get"]
            /\ wake' = wake
    /\ res' = [op |-> "compute_wait", raised |-> "", thread |-> t]
    /\ UNCHANGED <<next_request_at, lastSentAt, prevSentAt, wire, loaded, lock, sent_at>>
    /\ threadFrame

\* time.sleep(wait_time) returns
wake_up(t) ==
    /\ pc[t] = "sleep"
    /\ now >= wake[t]
    /\ pc' = [pc EXCEPT ![t] = "get"]
    /\ res' = [op |-> "wake_up", raised |-> "", thread |-> t]
    /\ UNCHANGED <<next_request_at, lastSentAt, prevSentAt, wire, wake, loaded, lock, sent_at>>
    /\ threadFrame

\* self._session.get(url), answered at once
session_get(t) ==
    /\ pc[t] = "get"
    /\ pc' = [pc EXCEPT ![t] = "load"]
    /\ sent_at' = Append(sent_at, now)
    /\ prevSentAt' = lastSentAt
    /\ lastSentAt' = now
    /\ wire' = <<[url |-> [endpoint |-> "ANIME", tail |-> <<>>], params |-> MISSING]>>
    /\ res' = [op |-> "session_get", raised |-> "", thread |-> t]
    /\ UNCHANGED <<next_request_at, wake, loaded, lock>>
    /\ threadFrame

\* the read of self._next_request_at in `self._next_request_at += self.delay`
load_slot(t) ==
    /\ pc[t] = "load"
    /\ pc' = [pc EXCEPT ![t] = "store"]
    /\ loaded' = [loaded EXCEPT ![t] = next_request_at]
    /\ res' = [op |-> "load_slot", raised |-> "", thread |-> t]
    /\ UNCHANGED <<next_request_at, lastSentAt, prevSentAt, wire, wake, lock, sent_at>>
    /\ threadFrame

\* the write of `self._next_request_at += self.delay`; api_call returns and
\* the caller releases its lock
store_slot(t) ==
    /\ pc[t] = "store"
    /\ pc' = [pc EXCEPT ![t] = "idle"]
    /\ next_request_at' = AdvanceSlot(loaded[t], delay)
    /\ lock' = IF locking THEN 0 ELSE lock
    /\ res' = [op |-> "store_slot", raised |-> "", thread |-> t]
    /\ UNCHANGED <<lastSentAt, prevSentAt, wire, wake, loaded, sent_at>>
    /\ threadFrame

\* time passes, but not past the end of a sleep
TickThreads ==
    /\ \A t \in Threads : pc[t] = "sleep" => wake[t] > now
    /\ Tick

InitThreads == InitClient /\ locking \in BOOLEAN

NextThreads ==
    \/ TickThreads
    \/ \E t \in Threads : enter_api_call(t)
    \/ \E t \in Threads : compute_wait(t)
    \/ \E t \in Threads : wake_up(t)
    \/ \E t \in Threads : session_get(t)
    \/ \E t \in Threads : load_slot(t)
    \/ \E t \in Threads : store_slot(t)

SpecThreads == InitThreads /\ [][NextThreads]_vars

\* ------------------------------------------------------------------------
\* Properties
\* ------------------------------------------------------------------------
QueryOps == {"anime_search", "manga_search", "get_topics"}

IsRequest == res.op \in RequestOps

\* the number a decimal string stands for
Parsed(s) == IntOfStr(s)[2]

\* C1: with a delay that is never changed after the first request, any two
\* consecutive requests of a client are sent at least delay apart.
C1_ConsecutiveRequestsDelayApart ==
    (delayFixed /\ prevSentAt # NoTime) => lastSentAt - prevSentAt >= delay

\* C2: N back-to-back requests under a delay set before the first of them take
\* at least (N-1)*delay from just before the first call to the last return,
\* whatever time passed between the creation of the client and the first call.
C2_BurstTakesAtLeastNMinus1Delays ==
    (IsRequest /\ res.sent /\ delayFixed /\ burst >= 1)
        => now - burstStart >= (burst - 1) * delay

\* C3: a per-call limit v is sent as 1 when v < 1, as the endpoint's maximum
\* M when v > M and as v itself otherwise, hence always as a value in 1..M.
C3_PerCallLimitClamped ==
    (IsRequest /\ res.sent /\ res.args.limit # MISSING) =>
        LET v == res.args.limit[1]
            M == EndpointLimit(res.endpoint)[1]
            sent == Parsed(res.params.limit[1])
        IN  /\ res.params.limit[1] = Str(sent)
            /\ sent \in 1..M
            /\ (v < 1 => sent = 1)
            /\ (v > M => sent = M)
            /\ (v \in 1..M => sent = v)

C3_Witness ==
    /\ res.op = "get_anime_list"
    /\ res.sent
    /\ res.args.limit = Some(1001)
    /\ res.params.limit = Some(<<"1", "0", "0", "0">>)

\* C4: a request built without a per-call limit sends a 'limit' that lies
\* between 1 and the maximum of the requested endpoint.
C4_DefaultLimitWithinEndpointMaximum ==
    (IsRequest /\ res.sent /\ res.args.limit = MISSING /\ res.params.limit # MISSING)
        => Parsed(res.params.limit[1]) \in 1..EndpointLimit(res.endpoint)[1]

\* C5: the limit is 10 on a fresh client and positive ever after, and an
\* assignment of a value whose integer conversion is <= 0 raises ValueError and
\* leaves the limit as it was.
C5_LimitStaysPositive ==
    /\ limit = 10
    /\ [](limit >= 1)
    /\ [][(res'.op = "set_limit" /\ PyInt(res'.value)[1] /\ PyInt(res'.value)[2] <= 0)
            => (res'.raised = "ValueError" /\ limit' = limit)]_vars

C5_Witness ==
    /\ res.op = "set_limit"
    /\ res.value = [kind |-> "float", n |-> 1, s |-> <<>>]
    /\ res.raised = "ValueError"
    /\ limit = 101

\* C6: the delay is never negative; a negative assignment raises ValueError
\* and leaves the delay as it was, every other assignment is accepted and
\* becomes the pacer's delay, with a warning exactly when it is below 1.0 s.
C6_DelayNeverNegative ==
    /\ [](delay >= 0)
    /\ [][res'.op = "set_delay" =>
            IF res'.value < 0
            THEN res'.raised = "ValueError" /\ delay' = delay
            ELSE /\ res'.raised = ""
                 /\ delay' = res'.value
                 /\ res'.warned = (res'.value < TicksPerSecond)]_vars

C6_Witness ==
    /\ res.op = "set_delay"
    /\ res.raised = ""
    /\ res.warned
    /\ res.value = TicksPerSecond - 1
    /\ delay = TicksPerSecond - 1

\* C7: a query shorter than 3 characters given to anime_search, manga_search
\* or get_topics fails with ValueError and nothing is sent, with auto_truncate
\* on as with auto_truncate off.
C7_ShortQueryAlwaysFails ==
    (res.op \in QueryOps /\ res.args.query # MISSING /\ Len(res.args.query[1]) < 3)
        => (res.raised = "ValueError" /\ ~res.sent /\ res.params.q = MISSING)

C7_Witness ==
    /\ auto_truncate
    /\ res.op = "get_topics"
    /\ res.args.query # MISSING
    /\ Len(res.args.query[1]) = 2
    /\ res.raised = "ValueError"

\* C8: a query longer than the endpoint's maximum (64 for the two searches,
\* 344 for the forum topics) fails with ValueError when auto_truncate is off
\* and is sent cut to its first maximum characters when it is on; a query of
\* 3 to maximum characters is sent unchanged.
C8_LongQueryTruncatedOrRejected ==
    (res.op \in QueryOps /\ res.args.query # MISSING) =>
        LET q == res.args.query[1]
            max == IF res.op = "get_topics" THEN 344 ELSE 64
        IN  /\ (Len(q) > max /\ ~auto_truncate)
                => (res.raised = "ValueError" /\ ~res.sent)
            /\ (Len(q) > max /\ auto_truncate)
                => /\ res.raised = ""
                   /\ res.sent
                   /\ Len(res.params.q[1]) = max
                   /\ \A i \in 1..max : res.params.q[1][i] = q[i]
            /\ (Len(q) >= 3 /\ Len(q) <= max)
                => (res.raised = "" /\ res.sent /\ res.params.q = Some(q))

C8_Witness ==
    /\ auto_truncate
    /\ res.op = "get_topics"
    /\ res.args.query # MISSING
    /\ Len(res.args.query[1]) = 345
    /\ res.sent
    /\ Len(res.params.q[1]) = 344

\* C9: get_topics called with none of its arguments fails with ValueError
\* and sends no request.
C9_TopicsWithoutArgumentsFails ==
    (res.op = "get_topics" /\ res.args = NoArgs)
        => (res.raised = "ValueError" /\ ~res.sent)

\* C10: 'nsfw' is in the parameters, as 'true', exactly when the resolved
\* flag is true: the per-call include_nsfw when given, else the client's.
C10_NsfwFollowsResolvedFlag ==
    (IsRequest /\ res.op # "get_topic_details" /\ res.sent) =>
        LET resolved == IF res.args.nsfw # MISSING THEN res.args.nsfw[1]
                        ELSE include_nsfw
        IN  /\ resolved => res.params.nsfw = Some("true")
            /\ ~resolved => res.params.nsfw = MISSING

C10_Witness ==
    /\ include_nsfw
    /\ res.op = "get_anime_list"
    /\ res.sent
    /\ res.args.nsfw = Some(FALSE)
    /\ res.params.nsfw = MISSING

\* C11: a request method leaves the client's limit, anime_fields,
\* manga_fields, include_nsfw, auto_truncate and delay as they were, whatever
\* per-call limit, offset, fields or include_nsfw it is given, and a request
\* made without one of these is built from the client's default for it.
C11_OverridesAffectOneRequestOnly ==
    /\ [][res'.op \in RequestOps => (UNCHANGED configVars /\ delay' = delay)]_vars
    /\ []((IsRequest /\ res.op # "get_topic_details" /\ res.sent) =>
            /\ res.args.limit = MISSING => res.params.limit = Some(Str(limit))
            /\ res.args.offset = MISSING => res.params.offset = MISSING
            /\ res.args.nsfw = MISSING =>
                    res.params.nsfw = (IF include_nsfw THEN Some("true") ELSE MISSING)
            /\ res.args.fields = MISSING =>
                    LET tail == IF EndpointIsList(res.endpoint)
                                THEN <<",", "list_status">> ELSE <<>>
                    IN  IF EndpointIsAnime(res.endpoint)
                        THEN res.params.fields = Some(Join(Values(anime_fields)) \o tail)
                        ELSE IF EndpointIsManga(res.endpoint)
                             THEN res.params.fields = Some(Join(Values(manga_fields)) \o tail)
                             ELSE res.params.fields = MISSING)

C11_Witness ==
    /\ res.op = "get_anime_list"
    /\ res.sent
    /\ res.after_override
    /\ res.args = NoArgs
    /\ limit = 10
    /\ res.params.limit = Some(<<"1", "0">>)
    /\ ~include_nsfw
    /\ res.params.nsfw = MISSING

\* C12: after any assignments to anime_fields and manga_fields, anime_fields
\* holds only Fields that apply to anime and manga_fields only Fields that
\* apply to manga (so assigning the list of every Field stores another list),
\* and every name sent in 'fields', list_status apart, applies to the category
\* of the endpoint, with per-call fields as with the defaults.
C12_FieldsApplicableToCategory ==
    /\ \A i \in 1..Len(anime_fields) :
            /\ anime_fields[i].cls = "Field"
            /\ anime_fields[i].value \in FieldValues \ AnimeForbidden
    /\ \A i \in 1..Len(manga_fields) :
            /\ manga_fields[i].cls = "Field"
            /\ manga_fields[i].value \in FieldValues \ MangaForbidden
    /\ (res.op = "set_anime_fields" /\ res.value = AllFields) => anime_fields # AllFields
    /\ (res.op = "set_manga_fields" /\ res.value = AllFields) => manga_fields # AllFields
    /\ (IsRequest /\ res.sent /\ res.params.fields # MISSING) =>
            LET sent == wire[1].params.fields[1] IN
            \A i \in 1..Len(sent) :
                sent[i] \notin {",", "list_status"} =>
                    IF res.endpoint \in {"ANIME", "ANIME_SEASONAL", "USER_ANIMELIST"}
                    THEN sent[i] \in FieldValues \ AnimeForbidden
                    ELSE /\ res.endpoint \in {"MANGA", "USER_MANGALIST"}
                         /\ sent[i] \in FieldValues \ MangaForbidden

C12_Witness ==
    /\ Len(anime_fields) = 33
    /\ Len(manga_fields) = 27
    /\ res.op = "get_manga_list"
    /\ res.sent
    /\ res.args.fields = Some(AllFields)
    /\ Len(wire[1].params.fields[1]) = 2 * 27 + 1

\* C13: the 'fields' of a request to a user-list endpoint ends with
\* ',list_status', with per-call fields, with the default fields and with an
\* empty resolved set alike; the 'fields' of no other endpoint holds
\* list_status; a list request given status 'completed' sends status=completed.
C13_ListStatusAppendedForListsOnly ==
    (IsRequest /\ res.sent) =>
        LET params == wire[1].params IN
        /\ res.endpoint \in {"USER_ANIMELIST", "USER_MANGALIST"} =>
                /\ params.fields # MISSING
                /\ Len(params.fields[1]) >= 2
                /\ SubSeq(params.fields[1], Len(params.fields[1]) - 1,
                          Len(params.fields[1])) = <<",", "list_status">>
                /\ res.args.status = Some(StrTok("completed"))
                        => params.status = Some("completed")
        /\ res.endpoint \notin {"USER_ANIMELIST", "USER_MANGALIST"} =>
                \/ params.fields = MISSING
                \/ \A i \in 1..Len(params.fields[1]) :
                        params.fields[1][i] # "list_status"

C13_Witness ==
    /\ res.op = "get_anime_list"
    /\ res.sent
    /\ res.args.fields = Some(<<EnumTok("Season", "winter"), StrTok("Id")>>)
    /\ res.args.status = Some(StrTok("completed"))
    /\ wire[1].params.fields = Some(<<",", "list_status">>)
    /\ wire[1].params.status = Some("completed")

C15_StringsValidatedAgainstCategoryVocabulary ==
    (res.op \in RequestOps \cup {"_build_parameters"}) =>
        LET IsStr(arg) == arg # MISSING /\ arg[1].cls = "str"
            statuses == IF EndpointIsAnime(res.endpoint) THEN AnimeListStatusValues
                        ELSE IF EndpointIsManga(res.endpoint)
                             THEN MangaListStatusValues ELSE {}
            sorts == IF EndpointIsAnime(res.endpoint)
                     THEN AnimeListSortValues \cup SeasonalAnimeSortValues
                     ELSE IF EndpointIsManga(res.endpoint)
                          THEN MangaListSortValues ELSE {}
        IN  /\ (IsStr(res.args.status) /\ res.args.status[1].value \notin statuses)
                    => (res.raised = "ValueError" /\ ~res.sent)
            /\ (IsStr(res.args.sort) /\ res.args.sort[1].value \notin sorts)
                    => (res.raised = "ValueError" /\ ~res.sent)
            /\ (IsStr(res.args.season) /\ res.args.season[1].value \notin SeasonValues)
                    => (res.raised = "ValueError" /\ ~res.sent)
            /\ (IsStr(res.args.status) /\ res.raised # "ValueError")
                    => res.params.status = Some(res.args.status[1].value)
            /\ (IsStr(res.args.sort) /\ res.raised # "ValueError")
                    => res.params.sort = Some(res.args.sort[1].value)
            /\ ( /\ res.args.status = MISSING \/ res.args.status[1].value \in statuses
                 /\ res.args.sort = MISSING \/ res.args.sort[1].value \in sorts
                 /\ res.args.season = MISSING
                        \/ res.args.season[1].value \in SeasonValues
                 /\ res.args.query = MISSING )
                    => res.raised # "ValueError"

C15_Witness ==
    /\ res.op = "get_manga_list"
    /\ res.args.status = Some(StrTok("watching"))
    /\ res.args.sort = Some(StrTok("list_score"))
    /\ res.raised = "ValueError"
    /\ ~res.sent
    /\ wire = <<>>

\* C16: _get_as_id gives the decimal string of an int id and, of a url, the
\* piece before its last '/' back to the '/' before that one (16498 for
\* https://myanimelist.net/anime/16498/Shingeki_no_Kyojin); get_anime and
\* get_manga request the url of their endpoint, '/', and that id.
C16_IdFromIntOrUrl ==
    ( /\ res.op \in {"get_anime", "get_manga"}
      /\ res.sent
      /\ \/ res.args.id[1].kind = "int"
         \/ \E i \in 1..Len(res.args.id[1].s) : res.args.id[1].s[i] = "/" ) =>
        LET value == res.args.id[1]
            slashes == {i \in 1..Len(value.s) : value.s[i] = "/"} \cup {0}
            last == CHOOSE i \in slashes : \A j \in slashes : j <= i
            before == {i \in slashes : i < last}
            prev == IF before = {} THEN 0
                    ELSE CHOOSE i \in before : \A j \in before : j <= i
            id == IF value.kind = "int" THEN Str(value.n)
                  ELSE SubSeq(value.s, prev + 1, last - 1)
            base == IF res.op = "get_anime" THEN <<"anime">> ELSE <<"manga">>
        IN  /\ Len(wire) = 1
            /\ EndpointUrl(wire[1].url.endpoint) \o wire[1].url.tail
                    = <<"https:", "", "api.myanimelist.net", "v2">> \o base \o <<id>>
            /\ value = UrlId(AnimePage) => id = <<"1", "6", "4", "9", "8">>
            /\ value = IntId(16498) => id = <<"1", "6", "4", "9", "8">>

C16_Witness ==
    /\ res.op = "get_anime"
    /\ res.sent
    /\ res.args.id = Some(UrlId(AnimePage))
    /\ wire[1].url = [endpoint |-> "ANIME", tail |-> <<(<<"1", "6", "4", "9", "8">>)>>]

PageOps == {"previous_page", "next_page"}

\* C18: previous_page (next_page) of an object without a previous (next) link
\* returns None, sends nothing and leaves the pacer as it was; with the link,
\* it sends one request, to that link, through the pacer: not before the
\* pacer's next slot, which it then moves on.
C18_PageWithoutLinkIsNoRequest ==
    [][res'.op \in PageOps =>
          IF res'.link = MISSING
          THEN /\ res'.returned = MISSING
               /\ res'.raised = ""
               /\ wire' = <<>>
               /\ UNCHANGED <<now, next_request_at, delay, lastSentAt>>
          ELSE /\ Len(wire') = 1
               /\ wire'[1].url = res'.link
               /\ lastSentAt' >= next_request_at
               /\ lastSentAt' >= now
               /\ delay' = delay
               /\ res'.outcome # "transport_error"
                      => next_request_at' = next_request_at + delay]_vars

C18_Witness ==
    /\ res.op = "previous_page"
    /\ res.paginated.prev_page = MISSING
    /\ res.paginated.next_page # MISSING
    /\ res.returned = MISSING
    /\ wire = <<>>
    /\ lastSentAt # NoTime
    /\ next_request_at > now

\* C19: when the response has a status other than 200, api_call raises to
\* its caller after the one request it sent, and returns no JSON.
C19_NonOkStatusRaisesAfterOneRequest ==
    (IsRequest /\ res.sent /\ res.outcome \in {"http_error", "other_status"}) =>
        /\ Len(wire) = 1
        /\ res.raised = "HTTPError"
        /\ res.data = MISSING

\* C20: after every api_call, _next_request_at is the time at which the
\* request of that call was sent, after any wait, plus the delay.
C20_NextSlotIsSendTimePlusDelay ==
    (IsRequest /\ res.sent) => next_request_at = lastSentAt + delay

\* C21: in a burst of back-to-back calls under a delay that is not changed,
\* each request is sent exactly delay after the request before it, however
\* long the requests take.
C21_BurstRequestsExactlyDelayApart ==
    (IsRequest /\ res.sent /\ delayFixed /\ burst >= 2)
        => lastSentAt - prevSentAt = delay

\* C22: every api_call sends exactly one request, after a sleep that is never
\* negative and never longer than the delay that was in effect when the
\* previous request was made.
C22_SleepBoundedByPreviousDelay ==
    [][wire' # <<>> =>
          /\ Len(wire') = 1
          /\ lastSentAt' - now >= 0
          /\ lastSentAt' - now <= delayAtSend
          /\ now' >= lastSentAt']_vars

\* a call made as soon as the previous one returned, which had to sleep: its
\* request went out a whole delay after the previous one, which took less
C22_Witness ==
    /\ IsRequest /\ res.sent
    /\ burst >= 2
    /\ delayAtSend = MaxDelay
    /\ lastSentAt - prevSentAt = MaxDelay
    /\ MaxDelay > MaxDur

\* C23: when every api_call runs under one lock, at most one thread is inside
\* api_call, every call has advanced the slot by the delay and the k-th request
\* was sent no earlier than its slot, as in a sequential run of the calls;
\* without the lock only this much is kept: updates of the slot may be lost,
\* none is ever made twice.
C23_LockedCallsAreSequential ==
    /\ locking =>
          /\ Cardinality({t \in Threads : pc[t] # "idle"}) <= 1
          /\ next_request_at = completed * delay
          /\ \A k \in 1..Len(sent_at) : sent_at[k] >= (k - 1) * delay
    /\ ~locking => next_request_at <= completed * delay

\* without the lock: two threads have sent their requests at the same time,
\* and after both calls the slot has advanced by one delay only
C23_Witness ==
    /\ ~locking
    /\ \A t \in Threads : pc[t] = "idle"
    /\ Len(sent_at) = 2
    /\ sent_at[2] - sent_at[1] < delay
    /\ next_request_at = delay

RankingOps == {"get_anime_ranking", "get_manga_ranking"}

\* the value of the query parameter `name` in a link, <<>> when it has none:
\* the query is what follows '?', its parameters are separated by '&' and
\* each is name=value
QueryValue(link, name) ==
    LET query == SplitBy(link, "?")
        parameters == IF Len(query) < 2 THEN <<>> ELSE SplitBy(query[2], "&")
        named == {i \in 1..Len(parameters) :
                       SplitBy(parameters[i], "=")[1] = name}
    IN  IF named = {} THEN <<>>
        ELSE SplitBy(parameters[CHOOSE i \in named : TRUE], "=")[2]

\* the ranking type a payload tells of: that of its previous-page link when it
\* has one, else that of its next-page link, else none
PayloadType(payload) ==
    IF payload.previous # MISSING THEN QueryValue(payload.previous[1], RankingTypeName)
    ELSE IF payload.next # MISSING THEN QueryValue(payload.next[1], RankingTypeName)
    ELSE <<>>

\* C24: a ranking is built from any payload without raising: its type is the
\* MISSING marker when the payload has neither link and otherwise the
\* ranking_type of its previous-page link, else of its next-page link; and a
\* ranking method whose request is answered returns a ranking of the requested
\* type.
C24_RankingTypeDefined ==
    /\ res.op = "new_ranking" =>
          /\ res.raised = ""
          /\ IF res.payload.previous = MISSING /\ res.payload.next = MISSING
             THEN res.type = TypeMissing
             ELSE res.type = TypeMember(res.cls, PayloadType(res.payload))
    /\ (res.op \in RankingOps /\ res.sent /\ res.outcome = "ok") =>
          /\ res.raised = ""
          /\ res.returned # MISSING
          /\ res.returned[1].type.value = res.args.ranking_type[1].value

\* the members of a list of fields
Members(fields) == {fields[i] : i \in 1..Len(fields)}

\* C25: no field is excluded from both categories, so every Field is an anime
\* field or a manga field; is_anime holds exactly outside authors,
\* num_chapters, num_volumes, serialization and is_manga exactly outside the
\* manga exclusion list; all_anime() and all_manga() list exactly the fields
\* of their category, each once.
C25_EveryFieldHasACategory ==
    /\ res.op = "field_flags" =>
          /\ AnimeForbidden \cap MangaForbidden = {}
          /\ res.is_anime \/ res.is_manga
          /\ res.is_anime <=> res.field.value \notin
                {"authors", "num_chapters", "num_volumes", "serialization"}
          /\ res.is_manga <=> res.field.value \notin MangaForbidden
    /\ res.op = "all_anime" =>
          /\ Members(res.result) = {f \in Members(AllFields) : FieldIsAnime(f)}
          /\ Len(res.result) = Len(AllFields) - Cardinality(AnimeForbidden)
    /\ res.op = "all_manga" =>
          /\ Members(res.result) = {f \in Members(AllFields) : FieldIsManga(f)}
          /\ Len(res.result) = Len(AllFields) - Cardinality(MangaForbidden)

\* is_anime and is_manga were read of a manga-only field
C25_Witness ==
    /\ res.op = "field_flags"
    /\ res.field = FieldMember("authors")
    /\ res.is_manga /\ ~res.is_anime

\* the vocabularies of the endpoints that take a status or a sort
StatusVocabulary(endpoint) ==
    IF endpoint = "USER_ANIMELIST" THEN AnimeListStatusValues ELSE MangaListStatusValues

SortVocabulary(endpoint) ==
    CASE endpoint = "USER_ANIMELIST" -> AnimeListSortValues
      [] endpoint = "USER_MANGALIST" -> MangaListSortValues
      [] endpoint = "ANIME_SEASONAL" -> SeasonalAnimeSortValues

\* C26: a request for the anime list, the manga list or the seasonal anime
\* carries a 'status' only from the list status vocabulary of its endpoint and
\* a 'sort' only from the sort vocabulary of its endpoint, whether the caller
\* gave a string or a member of an enumeration.
C26_EmittedStatusAndSortInVocabulary ==
    (res.op \in {"get_anime_list", "get_manga_list", "get_seasonal_anime"} /\ res.sent) =>
        /\ (res.endpoint # "ANIME_SEASONAL" /\ res.params.status # MISSING) =>
              res.params.status[1] \in StatusVocabulary(res.endpoint)
        /\ res.params.sort # MISSING =>
              res.params.sort[1] \in SortVocabulary(res.endpoint)

\* C27: a request method that raises ValueError has sent no request, has not
\* waited, and has left _next_request_at, the delay and the defaults of the
\* client as they were.
C27_RejectedCallChangesNothing ==
    [][(res'.op \in RequestOps \cup RankingOps /\ res'.raised = "ValueError") =>
          /\ wire' = <<>>
          /\ now' = now
          /\ UNCHANGED <<next_request_at, delay, lastSentAt>>
          /\ UNCHANGED configVars]_vars

\* a season that is not one was rejected while the slot of the next request
\* was still ahead
C27_Witness ==
    /\ res.op = "get_seasonal_anime"
    /\ res.raised = "ValueError"
    /\ res.args.season[1].value \notin SeasonValues
    /\ wire = <<>>
    /\ next_request_at > now
    /\ lastSentAt # NoTime

\* C28: every api_call that sends a request advances _next_request_at by the
\* current delay, once, whatever becomes of the request: a 200 response,
\* another status, or an exception raised by the transport.
C28_EveryAttemptConsumesASlot ==
    [][wire' # <<>> => next_request_at' = next_request_at + delay]_vars

\* C29: when the delay has been changed since the previous request, the next
\* request is sent at least the new delay after the previous one.
C29_NewDelayGovernsNextGap ==
    [][(wire' # <<>> /\ lastSentAt # NoTime /\ delay # delayAtSend) =>
          lastSentAt' - lastSentAt >= delay]_vars

\* C30: previous_page and next_page on an object of any paginated class that
\* has the link, answered with a non-empty page, return an object of the class
\* of their argument and raise nothing.
C30_PageHasClassOfArgument ==
    (res.op \in PageOps /\ res.sent /\ res.outcome = "ok" /\ res.page # MISSING) =>
        /\ res.raised = ""
        /\ res.returned # MISSING
        /\ res.returned[1].cls = res.paginated.cls

====
